---------------------------- MODULE Spec2Model ----------------------------
(***************************************************************************)
(* A model of the MCP router's subscription store (crates/router/src/      *)
(* subs.rs) and of the tools/call path that uses it (crates/router/src/    *)
(* router.rs).  Every .await of the Rust code is a point where another     *)
(* task may run, so every action below is the code between two awaits.     *)
(***************************************************************************)
EXTENDS Integers, FiniteSets, Sequences, TLC

(***************************************************************************)
(* Bounds of the model.                                                    *)
(***************************************************************************)
\* number of concurrently running tasks (RPC handlers, admin handlers)
NProcs == 2

\* children one stdio driver spawns, and calls made on it, in a run
MaxChildren == 2

MaxRequests == 3

\* handles one registry builds, and operations started on it, in a run
MaxHandles == 2

MaxRegOps == 2
\* at most MaxUsed usage rows are written per user
MaxUsed == 3
\* the model's stand-in for i64::MAX: integers are IntMax-bounded two's
\* complement, large enough to hold every tier preset
IntMax == 16777215

Procs == 1..NProcs
\* the user ids requests name, and those the admin API gives a subscription
Users == {"u1", "u2"}
Subscribers == {"u1"}

(***************************************************************************)
(* Option<T>: None is the empty tuple, Some(x) the one-element tuple.      *)
(***************************************************************************)
None == <<>>
Some(x) == <<x>>
IsSome(o) == o # <<>>
Get(o) == o[1]
Opt(S) == {None} \cup {Some(x) : x \in S}
unwrap_or(o, d) == IF IsSome(o) THEN Get(o) ELSE d

(***************************************************************************)
(* i64 arithmetic.  `a + b` on i64 panics on overflow in a build with      *)
(* overflow checks and wraps in one without.                               *)
(***************************************************************************)
IntMin == -IntMax - 1
Overflows(a, b) == (a + b > IntMax) \/ (a + b < IntMin)
WrapAdd(a, b) == ((a + b - IntMin) % (2 * (IntMax + 1))) + IntMin

(***************************************************************************)
(* Tier and its string form.                                               *)
(***************************************************************************)
Tiers == {"Basic", "Pro", "Enterprise"}
as_str(tier) ==
    CASE tier = "Basic" -> "basic"
      [] tier = "Pro" -> "pro"
      [] tier = "Enterprise" -> "enterprise"
from_str(value) ==
    CASE value = "pro" -> "Pro"
      [] value = "enterprise" -> "Enterprise"
      [] OTHER -> "Basic"

(***************************************************************************)
(* Timestamps cross the database boundary as RFC-3339 strings.             *)
(***************************************************************************)
to_rfc3339(ts) == <<"rfc3339", ts>>
parse_from_rfc3339(s) ==
    IF Len(s) = 2 /\ s[1] = "rfc3339" THEN Some(s[2]) ELSE None

(***************************************************************************)
(* Text.  A String is the tuple of its characters; the model's texts are   *)
(* ASCII; a control character, the quotes and the backslash are written    *)
(* "<code>".                                                               *)
(***************************************************************************)
Ascii ==
    <<
      "<0>", "<1>", "<2>", "<3>", "<4>", "<5>", "<6>", "<7>",
      "<8>", "<9>", "<10>", "<11>", "<12>", "<13>", "<14>", "<15>",
      "<16>", "<17>", "<18>", "<19>", "<20>", "<21>", "<22>", "<23>",
      "<24>", "<25>", "<26>", "<27>", "<28>", "<29>", "<30>", "<31>",
      " ", "!", "<34>", "#", "$", "%", "&", "'",
      "(", ")", "*", "+", ",", "-", ".", "/",
      "0", "1", "2", "3", "4", "5", "6", "7",
      "8", "9", ":", ";", "<", "=", ">", "?",
      "@", "A", "B", "C", "D", "E", "F", "G",
      "H", "I", "J", "K", "L", "M", "N", "O",
      "P", "Q", "R", "S", "T", "U", "V", "W",
      "X", "Y", "Z", "[", "<92>", "]", "^", "_",
      "<96>", "a", "b", "c", "d", "e", "f", "g",
      "h", "i", "j", "k", "l", "m", "n", "o",
      "p", "q", "r", "s", "t", "u", "v", "w",
      "x", "y", "z", "{", "|", "}", "~", "<127>"
    >>

\* the byte of a character, str::as_bytes
Ord(c) == (CHOOSE i \in 1..128 : Ascii[i] = c) - 1

as_bytes(text) == [i \in 1..Len(text) |-> Ord(text[i])]

\* String::from_utf8: bytes of 128 and more do not occur in ASCII text
from_utf8(bytes) ==
    IF \A i \in 1..Len(bytes) : bytes[i] < 128
    THEN Some([i \in 1..Len(bytes) |-> Ascii[bytes[i] + 1]])
    ELSE None

\* the alphabet of base64::engine::general_purpose::STANDARD
Base64Alphabet ==
    <<
      "A", "B", "C", "D", "E", "F", "G", "H", "I", "J", "K", "L", "M", "N", "O", "P",
      "Q", "R", "S", "T", "U", "V", "W", "X", "Y", "Z", "a", "b", "c", "d", "e", "f",
      "g", "h", "i", "j", "k", "l", "m", "n", "o", "p", "q", "r", "s", "t", "u", "v",
      "w", "x", "y", "z", "0", "1", "2", "3", "4", "5", "6", "7", "8", "9", "+", "/"
    >>

Sextet(n) == Base64Alphabet[n + 1]

\* STANDARD.encode: three bytes to four characters, '=' padding at the end
RECURSIVE EncodeBytes(_)
EncodeBytes(bytes) ==
    IF Len(bytes) = 0 THEN <<>>
    ELSE IF Len(bytes) = 1
    THEN <<Sextet(bytes[1] \div 4), Sextet((bytes[1] % 4) * 16), "=", "=">>
    ELSE IF Len(bytes) = 2
    THEN <<Sextet(bytes[1] \div 4),
           Sextet((bytes[1] % 4) * 16 + bytes[2] \div 16),
           Sextet((bytes[2] % 16) * 4), "=">>
    ELSE <<Sextet(bytes[1] \div 4),
           Sextet((bytes[1] % 4) * 16 + bytes[2] \div 16),
           Sextet((bytes[2] % 16) * 4 + bytes[3] \div 64),
           Sextet(bytes[3] % 64)>>
            \o EncodeBytes(SubSeq(bytes, 4, Len(bytes)))

Base64Index(c) ==
    IF \E i \in 1..64 : Base64Alphabet[i] = c
    THEN Some((CHOOSE i \in 1..64 : Base64Alphabet[i] = c) - 1)
    ELSE None

\* STANDARD.decode: canonical padding is required, bits past the last byte
\* must be zero, any other character is an error
RECURSIVE DecodeChars(_)
DecodeChars(chars) ==
    IF Len(chars) = 0 THEN Some(<<>>)
    ELSE IF Len(chars) < 4 THEN None
    ELSE LET a == Base64Index(chars[1])
             b == Base64Index(chars[2])
             c == Base64Index(chars[3])
             d == Base64Index(chars[4])
             last == Len(chars) = 4
         IN  IF a = None \/ b = None THEN None
             ELSE IF last /\ chars[3] = "=" /\ chars[4] = "="
             THEN IF Get(b) % 16 = 0
                  THEN Some(<<Get(a) * 4 + Get(b) \div 16>>)
                  ELSE None
             ELSE IF c = None THEN None
             ELSE IF last /\ chars[4] = "="
             THEN IF Get(c) % 4 = 0
                  THEN Some(<<Get(a) * 4 + Get(b) \div 16,
                              (Get(b) % 16) * 16 + Get(c) \div 4>>)
                  ELSE None
             ELSE IF d = None THEN None
             ELSE LET rest == DecodeChars(SubSeq(chars, 5, Len(chars)))
                  IN  IF rest = None THEN None
                      ELSE Some(<<Get(a) * 4 + Get(b) \div 16,
                                  (Get(b) % 16) * 16 + Get(c) \div 4,
                                  (Get(c) % 4) * 64 + Get(d)>> \o Get(rest))

\* STANDARD.encode(text)
STANDARD_encode(text) == EncodeBytes(as_bytes(text))

\* STANDARD.decode(payload) followed by String::from_utf8
STANDARD_decode(payload) ==
    LET decoded == DecodeChars(payload)
    IN  IF decoded = None THEN None ELSE from_utf8(Get(decoded))

RouterScheme == <<"m", "c", "p", "+", "r", "o", "u", "t", "e", "r", ":", "/", "/">>

\* str::strip_prefix
strip_prefix(text, prefix) ==
    IF Len(text) >= Len(prefix) /\ SubSeq(text, 1, Len(prefix)) = prefix
    THEN Some(SubSeq(text, Len(prefix) + 1, Len(text)))
    ELSE None

(***************************************************************************)
(* The state.                                                              *)
(*   db             the subscriptions table: user_id -> Option<row>        *)
(*   usage_counters the usage_counters table: user_id -> rows, sum(tokens) *)
(*   cache          SubscriptionStore.cache: user_id -> Option<record>     *)
(*   now            Utc::now(); a run of the model is short, the clock     *)
(*                  stands still in it                                     *)
(*   procs          each task's position and locals; sent and wrote record *)
(*                  that the task called an upstream / updated a row       *)
(*   quota          inputs and outcome of one direct check_quota call      *)
(*   codec          inputs and outcomes of the resource-uri codec          *)
(*   stdio          one StdioUpstream, its children and its callers        *)
(*   registry       the UpstreamRegistry, its handles and its callers      *)
(*   http           the AuthConfig and the HTTP request being served       *)
(*   sse            the SseHub: its channel and its receivers              *)
(*   keys           the providers and provider_keys tables                 *)
(***************************************************************************)
VARIABLES db, usage_counters, cache, now, procs, quota, codec, stdio, registry,
          http, sse, keys

vars == <<db, usage_counters, cache, now, procs, quota, codec, stdio, registry, http, sse, keys>>

(***************************************************************************)
(* SubscriptionRecord::check_quota.  The result is the set of outcomes the *)
(* builds can produce: where tokens_used + tokens overflows i64, a build   *)
(* with overflow checks panics and one without compares the wrapped sum.   *)
(***************************************************************************)
check_quota(record, tokens, clock) ==
    IF IsSome(record.expires_at) /\ Get(record.expires_at) < clock
    THEN {"Expired"}
    ELSE IF record.requests_used >= record.max_requests
    THEN {"RequestsExceeded"}
    ELSE IF Overflows(record.tokens_used, tokens)
    THEN {"panic",
          IF WrapAdd(record.tokens_used, tokens) > record.max_tokens
          THEN "TokensExceeded" ELSE "Ok"}
    ELSE IF record.tokens_used + tokens > record.max_tokens
    THEN {"TokensExceeded"}
    ELSE {"Ok"}

(***************************************************************************)
(* The SQL statements of the store, each one atomic.                       *)
(***************************************************************************)
\* let preset = quotas.unwrap_or_else(|| match tier {...})
TierPreset(tier, quotas) ==
    IF IsSome(quotas) THEN Get(quotas)
    ELSE CASE tier = "Basic" -> <<100000, 1000, 1>>
           [] tier = "Pro" -> <<1000000, 10000, 3>>
           [] tier = "Enterprise" -> <<10000000, 100000, 10>>

\* SELECT ... FROM subscriptions WHERE user_id = ?1, and the record built
\* from the row
RowToRecord(user_id, row) ==
    [user_id |-> user_id,
     tier |-> from_str(row.tier),
     expires_at |-> IF IsSome(row.expires_at)
                    THEN parse_from_rfc3339(Get(row.expires_at))
                    ELSE None,
     max_tokens |-> row.max_tokens,
     max_requests |-> row.max_requests,
     max_concurrent |-> row.max_concurrent,
     tokens_used |-> row.tokens_used,
     requests_used |-> row.requests_used]

\* (mutant) INSERT OR REPLACE: the row is written anew, its counters at 0
SqlUpsertSubscriptionReplace(d, user_id, tier, expires_at, preset) ==
    [d EXCEPT ![user_id] =
        Some([tier |-> as_str(tier),
              expires_at |-> IF IsSome(expires_at)
                             THEN Some(to_rfc3339(Get(expires_at)))
                             ELSE None,
              max_tokens |-> preset[1],
              max_requests |-> preset[2],
              max_concurrent |-> preset[3],
              tokens_used |-> 0,
              requests_used |-> 0])]

\* INSERT INTO subscriptions ... COALESCE((SELECT tokens_used ...), 0) ...
\* ON CONFLICT(user_id) DO UPDATE SET tier, expires_at, max_*
SqlUpsertSubscription(d, user_id, tier, expires_at, preset) ==
    LET old == d[user_id]
        inserted ==
            [tier |-> as_str(tier),
             expires_at |-> IF IsSome(expires_at)
                            THEN Some(to_rfc3339(Get(expires_at)))
                            ELSE None,
             max_tokens |-> preset[1],
             max_requests |-> preset[2],
             max_concurrent |-> preset[3],
             tokens_used |-> IF IsSome(old) THEN Get(old).tokens_used ELSE 0,
             requests_used |-> IF IsSome(old) THEN Get(old).requests_used ELSE 0]
    IN  IF IsSome(old)
        THEN [d EXCEPT ![user_id] =
                Some([Get(old) EXCEPT !.tier = inserted.tier,
                                      !.expires_at = inserted.expires_at,
                                      !.max_tokens = inserted.max_tokens,
                                      !.max_requests = inserted.max_requests,
                                      !.max_concurrent = inserted.max_concurrent])]
        ELSE [d EXCEPT ![user_id] = Some(inserted)]

\* (mutant) SET tokens_used = ?1: the amount overwrites the counter
SqlUpdateUsageOverwrite(d, user_id, tokens) ==
    IF IsSome(d[user_id])
    THEN [d EXCEPT ![user_id] =
            Some([Get(d[user_id]) EXCEPT
                    !.tokens_used = tokens,
                    !.requests_used = Get(d[user_id]).requests_used + 1])]
    ELSE d

\* UPDATE subscriptions SET tokens_used = tokens_used + ?1,
\*        requests_used = requests_used + 1 WHERE user_id = ?2
SqlUpdateUsage(d, user_id, tokens) ==
    IF IsSome(d[user_id])
    THEN [d EXCEPT ![user_id] =
            Some([Get(d[user_id]) EXCEPT
                    !.tokens_used = Get(d[user_id]).tokens_used + tokens,
                    !.requests_used = Get(d[user_id]).requests_used + 1])]
    ELSE d

\* INSERT INTO usage_counters (provider, user_id, tokens) VALUES (?1, ?2, ?3)
\* (the table is kept as each user's number of rows and their token sum)
SqlInsertUsage(uc, provider, user_id, tokens) ==
    [uc EXCEPT ![user_id] = [rows |-> uc[user_id].rows + 1,
                             tokens |-> uc[user_id].tokens + tokens]]

\* self.cache.write().await.insert(user_id, record)
CacheInsert(c, user_id, record) == [c EXCEPT ![user_id] = Some(record)]

\* (mutant) the entry is left in the cache
CacheKeep(c, user_id) == c

\* self.cache.write().await.remove(user_id)
CacheRemove(c, user_id) == [c EXCEPT ![user_id] = None]

(***************************************************************************)
(* get_subscription and record_usage run from start to end with no other   *)
(* task in between: the same statements as the actions further down.       *)
(***************************************************************************)
get_subscription(c, d, user_id) ==
    IF IsSome(c[user_id])
    THEN [cache |-> c, result |-> c[user_id]]
    ELSE IF IsSome(d[user_id])
    THEN LET record == RowToRecord(user_id, Get(d[user_id]))
         IN  [cache |-> CacheInsert(c, user_id, record), result |-> Some(record)]
    ELSE [cache |-> c, result |-> None]

record_usage(c, d, uc, user_id, tokens, provider) ==
    [db |-> SqlUpdateUsage(d, user_id, tokens),
     usage_counters |-> SqlInsertUsage(uc, provider, user_id, tokens),
     cache |-> CacheRemove(c, user_id)]

(***************************************************************************)
(* JSON-RPC values.  A string that the code splits is a tuple of           *)
(* characters.                                                             *)
(***************************************************************************)
\* enum Id { Str(String), Int(i64), None }
IdNone == <<"None">>
IdInt(n) == <<"Int", n>>
IdStr(x) == <<"Str", x>>

\* Request::new(method, params): the id is always Id::Int(0)
Request_new(method, params) ==
    [id |-> IdInt(0), method |-> method, params |-> params]

\* Response::result(id, value)
ResultResponse(id, value) ==
    [id |-> id, result |-> Some(value), error |-> None]

\* Response::error(id, ErrorObject::custom(code, message, ..))
ErrorResponse(id, code, message) ==
    [id |-> id, result |-> None,
     error |-> Some([code |-> code, message |-> message])]

\* #[error("...")] of EnforcementError
to_string(err) ==
    CASE err = "NoSubscription" -> "no active subscription"
      [] err = "Expired" -> "subscription expired"
      [] err = "RequestsExceeded" -> "request quota exceeded"
      [] err = "TokensExceeded" -> "token quota exceeded"

\* (mutant) value.rsplit_once('/'): the last '/' delimits
rsplit_namespace(value) ==
    LET slashes == {i \in 1..Len(value) : value[i] = "/"}
    IN  IF slashes = {} THEN None
        ELSE LET i == CHOOSE j \in slashes : \A k \in slashes : j >= k
             IN  Some(<<SubSeq(value, 1, i - 1), SubSeq(value, i + 1, Len(value))>>)

\* value.split_once('/')
split_namespace(value) ==
    LET slashes == {i \in 1..Len(value) : value[i] = "/"}
    IN  IF slashes = {} THEN None
        ELSE LET i == CHOOSE j \in slashes : \A k \in slashes : j <= k
             IN  Some(<<SubSeq(value, 1, i - 1), SubSeq(value, i + 1, Len(value))>>)

\* util.rs encode_resource_uri
encode_resource_uri(server, upstream_uri) ==
    RouterScheme \o server \o <<"/">> \o STANDARD_encode(upstream_uri)

\* util.rs decode_resource_uri: every `?` is an early None
decode_resource_uri(uri) ==
    LET rest == strip_prefix(uri, RouterScheme)
    IN  IF rest = None THEN None
        ELSE LET split == split_namespace(Get(rest))
             IN  IF split = None THEN None
                 ELSE LET upstream_uri == STANDARD_decode(Get(split)[2])
                      IN  IF upstream_uri = None THEN None
                          ELSE Some(<<Get(split)[1], Get(upstream_uri)>>)

(***************************************************************************)
(* The inputs the model draws.                                             *)
(***************************************************************************)
\* the names registered in the UpstreamRegistry
Registered == {<<"a">>, <<"b">>}
\* token amounts a client or an upstream can name
TokenArgs == {-1, 1}
UsageArgs == {1}
\* the token amounts of record_usage called on its own
RecordArgs == {1}
\* the params of a tools/call: the name, the usage.tokens estimate, and the
\* user, which a client may give as user_id, as user or as account.user_id
Params(name, usage_tokens, user_id, user, account_user_id) ==
    [name |-> Some(name), usage_tokens |-> usage_tokens, user_id |-> user_id,
     user |-> user, account_user_id |-> account_user_id, uri |-> None,
     arguments |-> None, stream |-> None]
ToolCallParams ==
    {Params(<<"a", "/", "e">>, t, Some("u1"), None, None) : t \in Opt(TokenArgs)}
    \cup {Params(<<"e">>, None, Some("u1"), None, None),
          Params(<<"a", "/", "e">>, None, Some("u2"), None, None),
          Params(<<"a", "/", "e">>, None, None, None, None),
          Params(<<"a", "/", "e">>, None, None, Some("u1"), None),
          Params(<<"a", "/", "e">>, None, None, None, Some("u1"))}
\* what registry.call(..).await produces: Err, or Ok(response)
UpstreamResponses ==
    {ResultResponse(IdInt(0), [usage_tokens |-> x, usage_total_tokens |-> None]) :
        x \in Opt(UsageArgs)}
UpstreamResults == {None} \cup {Some(r) : r \in UpstreamResponses}
\* the arguments of upsert_subscription
UpsertArgs ==
    {[tier |-> "Basic", expires_at |-> None, quotas |-> None],
     [tier |-> "Pro", expires_at |-> Some(2), quotas |-> Some(<<1, 2, 1>>)],
     [tier |-> "Pro", expires_at |-> Some(0), quotas |-> Some(<<1, 2, 1>>)]}

(***************************************************************************)
(* Tasks.  pc is the await a task is suspended at.                         *)
(***************************************************************************)
Fresh ==
    [pc |-> "idle", op |-> "none", id |-> IdNone, params |-> None, args |-> None,
     user |-> None, est |-> 0, tokens |-> 0, rec |-> None, err |-> "none",
     call |-> None, sent |-> FALSE, wrote |-> FALSE, resp |-> None,
     request |-> None, got |-> None]

Free(p) == procs[p].pc \in {"idle", "done"}

\* the calls in flight that may still write a usage row for user u
PendingUsage(u) ==
    Cardinality({q \in Procs : /\ procs[q].pc \notin {"idle", "done", "ru_invalidate"}
                               /\ procs[q].op \in {"tools/call", "record_usage"}
                               /\ procs[q].user = Some(u)})

HasBudget(u) ==
    usage_counters[u].rows + PendingUsage(u) < MaxUsed

\* the task ends; of its locals the model keeps what it answered
Finished(l) ==
    [Fresh EXCEPT !.pc = "done", !.op = l.op, !.id = l.id, !.err = l.err,
                  !.sent = l.sent, !.wrote = l.wrote, !.resp = l.resp,
                  !.request = l.request, !.got = l.got]

\* the handler returns `response`
Respond(l, response) == Finished([l EXCEPT !.resp = Some(response)])

\* handle_tool_call after enforce_subscription returned Ok: split the name
\* and start registry.call
Forward(l) ==
    LET target == unwrap_or(Get(l.params).name, <<>>)
        split == split_namespace(target)
    IN  IF split = None
        THEN Respond(l, ErrorResponse(l.id, -32602, "tool name must be namespaced"))
        ELSE IF Get(split)[1] \in Registered
        THEN [l EXCEPT !.pc = "tc_wait", !.sent = TRUE, !.rec = None,
                       !.call = Some([server |-> Get(split)[1],
                                      request |-> Request_new("tools/call",
                                          [Get(l.params) EXCEPT
                                              !.name = Some(Get(split)[2])])])]
        ELSE Respond(l, ErrorResponse(l.id, -32001, "upstream error"))

\* (mutant) the error is noted and the call forwarded all the same
RejectButForward(l, err) == Forward([l EXCEPT !.err = err])

\* handle_tool_call when enforce_subscription returned Err(err)
Reject(l, err) ==
    Respond([l EXCEPT !.err = err], ErrorResponse(l.id, -32020, to_string(err)))

\* enforce_subscription once get_subscription returned `found`; a panic
\* ends the handler task without a response
EnforceReturn(l, found, clock) ==
    IF found = None
    THEN {Reject(l, "NoSubscription")}
    ELSE {IF o = "Ok" THEN Forward(l)
          ELSE IF o = "panic" THEN Finished([l EXCEPT !.err = "panic"])
          ELSE Reject(l, o) : o \in check_quota(Get(found), l.est, clock)}

\* get_subscription returns `found` to its caller
GsReturn(l, found, clock) ==
    IF l.op = "tools/call"
    THEN EnforceReturn(l, found, clock)
    ELSE {Finished(l)}

\* the locals of handle_tool_call: target, estimated_tokens and the
\* params.user_id that enforce_subscription reads
ToolCallTask(l, id, params) ==
    [l EXCEPT !.op = "tools/call",
              !.id = id,
              !.params = Some(params),
              !.est = unwrap_or(params.usage_tokens, 0),
              !.user = params.user_id]

\* enforce_subscription: get_subscription for a named user, Ok(None) else
EnterToolCall(l) ==
    IF IsSome(l.user) THEN [l EXCEPT !.pc = "gs_read"] ELSE Forward(l)

(***************************************************************************)
(* RouterState::handle_tool_call, up to its first await.  Without          *)
(* params.user_id enforce_subscription returns Ok(None) at once.           *)
(***************************************************************************)
StartToolCall(p) ==
    /\ Free(p)
    /\ \E params \in ToolCallParams :
        LET l == ToolCallTask(Fresh, IdInt(1), params)
        IN  /\ IsSome(l.user) => HasBudget(Get(l.user))
            /\ procs' = [procs EXCEPT ![p] = EnterToolCall(l)]
    /\ UNCHANGED <<db, usage_counters, cache, now, quota, codec, stdio, registry, http, sse, keys>>

\* response.result.usage.tokens as an integer, else the estimate
ActualTokens(response, estimated_tokens) ==
    IF IsSome(response.result)
    THEN unwrap_or(Get(response.result).usage_tokens, estimated_tokens)
    ELSE estimated_tokens

\* handle_tool_call once registry.call(server, ..).await returned `reply`
ToolCallReturn(l, reply) ==
    IF reply = None
    THEN Respond(l, ErrorResponse(l.id, -32001, "upstream error"))
    ELSE IF IsSome(l.user)
    THEN [l EXCEPT !.pc = "ru_update",
                   !.resp = reply,
                   !.tokens = ActualTokens(Get(reply), l.est)]
    ELSE Respond(l, Get(reply))

\* registry.call(server, ..).await completes
TcReply(p) ==
    /\ procs[p].pc = "tc_wait"
    /\ \E reply \in UpstreamResults :
        procs' = [procs EXCEPT ![p] = ToolCallReturn(procs[p], reply)]
    /\ UNCHANGED <<db, usage_counters, cache, now, quota, codec, stdio, registry, http, sse, keys>>

(***************************************************************************)
(* The store's operations called on their own (admin handlers, tests).     *)
(***************************************************************************)
StartGetSubscription(p) ==
    /\ Free(p)
    /\ \E u \in Subscribers :
        procs' = [procs EXCEPT ![p] =
                    [Fresh EXCEPT !.op = "get_subscription", !.user = Some(u),
                                  !.pc = "gs_read"]]
    /\ UNCHANGED <<db, usage_counters, cache, now, quota, codec, stdio, registry, http, sse, keys>>

StartUpsertSubscription(p) ==
    /\ Free(p)
    /\ \E u \in Subscribers, a \in UpsertArgs :
        procs' = [procs EXCEPT ![p] =
                    [Fresh EXCEPT !.op = "upsert_subscription", !.user = Some(u),
                                  !.args = Some(a), !.pc = "us_write"]]
    /\ UNCHANGED <<db, usage_counters, cache, now, quota, codec, stdio, registry, http, sse, keys>>

\* record_usage for a user that has a subscription
StartRecordUsage(p) ==
    /\ Free(p)
    /\ \E u \in Subscribers, k \in RecordArgs :
        /\ IsSome(db[u])
        /\ HasBudget(u)
        /\ procs' = [procs EXCEPT ![p] =
                        [Fresh EXCEPT !.op = "record_usage", !.user = Some(u),
                                      !.tokens = k, !.pc = "ru_update"]]
    /\ UNCHANGED <<db, usage_counters, cache, now, quota, codec, stdio, registry, http, sse, keys>>

(***************************************************************************)
(* SubscriptionStore::get_subscription                                     *)
(***************************************************************************)
\* self.cache.read().await.get(user_id).cloned()
GsRead(p) ==
    /\ procs[p].pc = "gs_read"
    /\ LET l == procs[p]
           u == Get(l.user)
       IN  IF IsSome(cache[u])
           THEN \E nl \in GsReturn(l, cache[u], now) :
                    procs' = [procs EXCEPT ![p] = nl]
           ELSE procs' = [procs EXCEPT ![p] = [l EXCEPT !.pc = "gs_select"]]
    /\ UNCHANGED <<db, usage_counters, cache, now, quota, codec, stdio, registry, http, sse, keys>>

\* the SELECT; without a row the function returns Ok(None)
GsSelect(p) ==
    /\ procs[p].pc = "gs_select"
    /\ LET l == procs[p]
           u == Get(l.user)
       IN  IF IsSome(db[u])
           THEN procs' = [procs EXCEPT ![p] =
                            [l EXCEPT !.pc = "gs_insert",
                                      !.rec = Some(RowToRecord(u, Get(db[u])))]]
           ELSE \E nl \in GsReturn(l, None, now) :
                    procs' = [procs EXCEPT ![p] = nl]
    /\ UNCHANGED <<db, usage_counters, cache, now, quota, codec, stdio, registry, http, sse, keys>>

\* self.cache.write().await.insert(..); Ok(Some(record))
GsInsert(p) ==
    /\ procs[p].pc = "gs_insert"
    /\ LET l == procs[p]
           u == Get(l.user)
       IN  /\ cache' = CacheInsert(cache, u, Get(l.rec))
           /\ \E nl \in GsReturn(l, l.rec, now) :
                procs' = [procs EXCEPT ![p] = nl]
    /\ UNCHANGED <<db, usage_counters, now, quota, codec, stdio, registry, http, sse, keys>>

(***************************************************************************)
(* SubscriptionStore::upsert_subscription                                  *)
(***************************************************************************)
UsWrite(p) ==
    /\ procs[p].pc = "us_write"
    /\ LET l == procs[p]
           a == Get(l.args)
       IN  /\ db' = SqlUpsertSubscription(db, Get(l.user), a.tier, a.expires_at,
                                          TierPreset(a.tier, a.quotas))
           /\ procs' = [procs EXCEPT ![p] = [l EXCEPT !.pc = "us_invalidate"]]
    /\ UNCHANGED <<usage_counters, cache, now, quota, codec, stdio, registry, http, sse, keys>>

\* the cache entry is removed, then get_subscription is called
UsInvalidate(p) ==
    /\ procs[p].pc = "us_invalidate"
    /\ cache' = CacheRemove(cache, Get(procs[p].user))
    /\ procs' = [procs EXCEPT ![p] = [procs[p] EXCEPT !.pc = "gs_read"]]
    /\ UNCHANGED <<db, usage_counters, now, quota, codec, stdio, registry, http, sse, keys>>

(***************************************************************************)
(* SubscriptionStore::record_usage                                         *)
(***************************************************************************)
RuUpdate(p) ==
    /\ procs[p].pc = "ru_update"
    /\ db' = SqlUpdateUsage(db, Get(procs[p].user), procs[p].tokens)
    /\ procs' = [procs EXCEPT ![p] = [procs[p] EXCEPT !.pc = "ru_insert",
                                                       !.wrote = TRUE]]
    /\ UNCHANGED <<usage_counters, cache, now, quota, codec, stdio, registry, http, sse, keys>>

\* the provider of a call through the router is the upstream's name
ProviderOf(l) ==
    IF l.op = "tools/call"
    THEN Get(split_namespace(Get(Get(l.params).name)))[1]
    ELSE <<"a">>

RuInsert(p) ==
    /\ procs[p].pc = "ru_insert"
    /\ usage_counters' = SqlInsertUsage(usage_counters, ProviderOf(procs[p]),
                                        Get(procs[p].user), procs[p].tokens)
    /\ procs' = [procs EXCEPT ![p] = [procs[p] EXCEPT !.pc = "ru_invalidate"]]
    /\ UNCHANGED <<db, cache, now, quota, codec, stdio, registry, http, sse, keys>>

\* the cache entry is removed and record_usage returns Ok(()); the handler
\* then returns the upstream's response
RuInvalidate(p) ==
    /\ procs[p].pc = "ru_invalidate"
    /\ cache' = CacheRemove(cache, Get(procs[p].user))
    /\ procs' = [procs EXCEPT ![p] = Finished(procs[p])]
    /\ UNCHANGED <<db, usage_counters, now, quota, codec, stdio, registry, http, sse, keys>>

(***************************************************************************)
(* The router serving requests: the store is new (an empty cache) over a   *)
(* database without subscriptions.  The clock reads 1: an expiry of 0 is   *)
(* in the past, one of 2 in the future.                                    *)
(***************************************************************************)
NoQuota == [record |-> None, tokens |-> 0, out |-> "none"]

NoCodec ==
    [server |-> <<>>, upstream_uri |-> <<>>, text |-> <<>>,
     encoded |-> None, decoded |-> None, parsed |-> None]

\* the tasks that call one StdioUpstream, and the children it may spawn
Callers == 1..NProcs

Children == 1..MaxChildren

\* a child not yet spawned; stdin and stdout are the lines in its two pipes,
\* served the requests it has answered
NoChild ==
    [spawned |-> FALSE, exited |-> FALSE, eof |-> FALSE,
     stdin |-> <<>>, stdout |-> <<>>, served |-> {}]

\* a task outside of StdioUpstream::call
NoCall ==
    [pc |-> "idle", req |-> 0, child |-> 0, found |-> None,
     out |-> "none", resp |-> 0]

\* StdioUpstream::new: state is Mutex::new(None).  holder is the task that
\* holds the MutexGuard (0: none).  closed, abandoned and failed remember
\* the children a zero-byte read was made on, those a call was dropped on
\* between its write and its read, and those a read returned an error on.
NoStdio ==
    [state |-> None, holder |-> 0, spawned |-> 0, calls |-> 0,
     children |-> [g \in Children |-> NoChild],
     tasks |-> [t \in Callers |-> NoCall],
     closed |-> {}, abandoned |-> {}, failed |-> {}]

\* the tasks that use one UpstreamRegistry, and the handles it may build
RegTasks == 1..NProcs

Handles == 1..MaxHandles

\* an UpstreamHandle not yet built; sends counts the initialize requests
\* its upstream was sent
NoHandle == [name |-> <<>>, kind |-> "none", info |-> None, sends |-> 0]

\* a task outside of the registry
NoRegTask ==
    [pc |-> "idle", op |-> "none", name |-> <<>>, handle |-> 0, latest |-> 0,
     todo |-> <<>>, infos |-> <<>>, ok |-> {}, out |-> "none"]

\* UpstreamRegistry::new: entries is an empty HashMap, here the set of its
\* (name, handle) pairs.  last is the latest register call: its argument,
\* its result and the entries it found.
NoRegistry ==
    [entries |-> {}, handles |-> [h \in Handles |-> NoHandle], made |-> 0,
     ops |-> 0, last |-> None, tasks |-> [t \in RegTasks |-> NoRegTask]]

\* AuthConfig::new(None), no request received
NoHttp ==
    [bearer |-> None, authorization |-> None, endpoint |-> "none", status |-> 0,
     dispatched |-> FALSE]

\* the event hub is not in use
NoSse == <<>>

\* the provider tables are not in use
NoKeys == <<>>

Init ==
    /\ db = [u \in Users |-> None]
    /\ usage_counters = [u \in Users |-> [rows |-> 0, tokens |-> 0]]
    /\ cache = [u \in Users |-> None]
    /\ now = 1
    /\ procs = [p \in Procs |-> Fresh]
    /\ quota = NoQuota
    /\ codec = NoCodec
    /\ stdio = NoStdio
    /\ registry = NoRegistry
    /\ http = NoHttp
    /\ sse = NoSse
    /\ keys = NoKeys

Step(p) ==
    \/ StartToolCall(p)
    \/ TcReply(p)
    \/ StartGetSubscription(p)
    \/ StartUpsertSubscription(p)
    \/ StartRecordUsage(p)
    \/ GsRead(p)
    \/ GsSelect(p)
    \/ GsInsert(p)
    \/ UsWrite(p)
    \/ UsInvalidate(p)
    \/ RuUpdate(p)
    \/ RuInsert(p)
    \/ RuInvalidate(p)

Next == \E p \in Procs : Step(p)

Spec == Init /\ [][Next]_vars

(***************************************************************************)
(* The router serving only tools/call requests, over a database in which   *)
(* u1 has a subscription that admits one request.                          *)
(***************************************************************************)
InitCalls ==
    /\ db = [u \in Users |->
                IF u = "u1"
                THEN SqlUpsertSubscription([v \in Users |-> None], u, "Basic", None,
                                           TierPreset("Basic", Some(<<100000, 1, 1>>)))[u]
                ELSE None]
    /\ usage_counters = [u \in Users |-> [rows |-> 0, tokens |-> 0]]
    /\ cache = [u \in Users |-> None]
    /\ now = 1
    /\ procs = [p \in Procs |-> Fresh]
    /\ quota = NoQuota
    /\ codec = NoCodec
    /\ stdio = NoStdio
    /\ registry = NoRegistry
    /\ http = NoHttp
    /\ sse = NoSse
    /\ keys = NoKeys

NextCalls ==
    \E p \in Procs :
        \/ StartToolCall(p)
        \/ TcReply(p)
        \/ GsRead(p)
        \/ GsSelect(p)
        \/ GsInsert(p)
        \/ RuUpdate(p)
        \/ RuInsert(p)
        \/ RuInvalidate(p)

SpecCalls == InitCalls /\ [][NextCalls]_vars

(***************************************************************************)
(* check_quota called on its own, on any record and any token amount.      *)
(***************************************************************************)
QuotaRecords ==
    [user_id : {"u1"}, tier : {"Pro"}, expires_at : Opt({0, 2}),
     max_tokens : {1, IntMax}, max_requests : {1, 2}, max_concurrent : {1},
     tokens_used : {0, 1, 2}, requests_used : {0, 1, 2}]

QuotaTokens == {IntMin, -1, 0, 1, IntMax}

InitQuota ==
    /\ db = [u \in Users |-> None]
    /\ usage_counters = [u \in Users |-> [rows |-> 0, tokens |-> 0]]
    /\ cache = [u \in Users |-> None]
    /\ now = 1
    /\ procs = [p \in Procs |-> Fresh]
    /\ \E r \in QuotaRecords, t \in QuotaTokens :
        quota = [record |-> Some(r), tokens |-> t, out |-> "none"]
    /\ codec = NoCodec
    /\ stdio = NoStdio
    /\ registry = NoRegistry
    /\ http = NoHttp
    /\ sse = NoSse
    /\ keys = NoKeys

ApplyCheckQuota ==
    /\ quota.out = "none"
    /\ \E o \in check_quota(Get(quota.record), quota.tokens, now) :
        quota' = [quota EXCEPT !.out = o]
    /\ UNCHANGED <<db, usage_counters, cache, now, procs, codec, stdio, registry, http, sse, keys>>

SpecQuota == InitQuota /\ [][ApplyCheckQuota]_vars

(***************************************************************************)
(* RouterState::handle_jsonrpc: one task serving one request of any        *)
(* method.  request and got keep, for the whole run, the client's request  *)
(* and what the upstreams returned.                                        *)
(***************************************************************************)
Handlers == {1}

ListMethods == {"tools/list", "prompts/list", "resources/list"}

\* the top-level array each list method extracts
ListKey(method) ==
    CASE method = "tools/list" -> "tools"
      [] method = "prompts/list" -> "prompts"
      [] method = "resources/list" -> "resources"

\* the uris the upstreams name their resources by
UpstreamUris == {<<"f", "i", "l", "e", ":", "/", "/", "/", "x">>, <<"x">>}

\* format!("mcp+router://{}/{}", server, encoded)
RouterUri(server, encoded) ==
    RouterScheme \o server \o <<"/">> \o encoded

\* the requests a client sends
RpcIds == {IdNone, IdStr("x"), IdInt(7)}

RpcNames ==
    {None, Some(<<"e">>), Some(<<"a", "/", "e">>), Some(<<"a", "/", "e", "/", "f">>),
     Some(<<"c", "/", "e">>)}

RpcUris ==
    {None,
     Some(RouterUri(<<"a">>, STANDARD_encode(<<"f", "i", "l", "e", ":", "/", "/", "/", "x">>))),
     Some(RouterUri(<<"a">>, <<"!">>)),
     Some(RouterScheme \o <<"a">>),
     Some(<<"f", "i", "l", "e", ":", "/", "/", "/", "x">>)}

RpcParams(name, usage_tokens, user_id, uri) ==
    [name |-> name, usage_tokens |-> usage_tokens, user_id |-> user_id,
     user |-> None, account_user_id |-> None, uri |-> uri,
     arguments |-> None, stream |-> None]

RpcRequests ==
    {[id |-> i, method |-> "tools/call",
      params |-> [RpcParams(n, t, u, None) EXCEPT !.arguments = a, !.stream = st]] :
        i \in RpcIds, n \in RpcNames, t \in Opt({10}), u \in Opt(Users),
        a \in Opt({"x"}), st \in Opt({TRUE})}
    \cup {[id |-> i, method |-> "prompts/get",
           params |-> [RpcParams(n, None, None, None) EXCEPT !.arguments = a]] :
            i \in RpcIds, n \in RpcNames, a \in Opt({"x"})}
    \cup {[id |-> i, method |-> "resources/read", params |-> RpcParams(None, None, None, u)] :
            i \in RpcIds, u \in RpcUris}
    \cup {[id |-> i, method |-> m, params |-> RpcParams(None, None, None, None)] :
            i \in RpcIds,
            m \in ListMethods \cup {"initialize", "ping", "resources/subscribe"}}

\* what an upstream answers to a forwarded call: any Response at all
RpcResponses ==
    {[id |-> IdInt(0), result |-> r, error |-> e] :
        r \in Opt([usage_tokens : Opt({11}), usage_total_tokens : Opt({12})]),
        e \in Opt({[code |-> -32000, message |-> "upstream"]})}

RpcResults == {None} \cup {Some(r) : r \in RpcResponses}

\* the items an upstream lists; tag stands for the item's other fields
Item(server, i, name, uri) ==
    [object |-> TRUE, name |-> name, uri |-> uri, tag |-> <<server, i>>]

NonObject(server, i) ==
    [object |-> FALSE, name |-> None, uri |-> None, tag |-> <<server, i>>]

ItemLists(server) ==
    {<<>>,
     <<Item(server, 1, Some(<<"x">>), Some(<<"f", "i", "l", "e", ":", "/", "/", "/", "x">>))>>,
     <<Item(server, 1, Some(<<"t", "/", "x">>), Some(<<"x">>)), NonObject(server, 2),
       Item(server, 3, None, None)>>}

\* what one upstream answers to a list method: Err, an error response, or
\* a result holding its items
ListResults(method, server) ==
    {None, Some(ErrorResponse(IdInt(0), -32000, "upstream"))}
    \cup {Some(ResultResponse(IdInt(0), [key |-> ListKey(method), items |-> items])) :
            items \in ItemLists(server)}

\* registry.broadcast(method, {}): one (server, result) per registered
\* upstream, in the order the registry lists them
Broadcasts(method) ==
    UNION {{<<<<s1, r1>>, <<s2, r2>>>> :
                r1 \in ListResults(method, s1), r2 \in ListResults(method, s2)} :
            <<s1, s2>> \in {o \in Registered \X Registered : o[1] # o[2]}}

\* the name rewrite of aggregate_tools and aggregate_prompts
RewriteName(server, item) ==
    IF item.object
    THEN LET original == unwrap_or(item.name, <<>>)
             split == split_namespace(original)
             local == IF split = None THEN original ELSE Get(split)[2]
         IN  [item EXCEPT !.name = Some(server \o <<"/">> \o local)]
    ELSE item

\* the uri rewrite of aggregate_resources
RewriteUri(server, item) ==
    IF item.object /\ IsSome(item.uri)
    THEN [item EXCEPT !.uri = Some(RouterUri(server, STANDARD_encode(Get(item.uri))))]
    ELSE item

\* the items one (server, result) contributes to the aggregate
Contribution(method, server, result) ==
    IF result = None \/ Get(result).result = None
    THEN <<>>
    ELSE LET object == Get(Get(result).result)
         IN  IF object.key # ListKey(method)
             THEN <<>>
             ELSE [i \in 1..Len(object.items) |->
                     IF method = "resources/list"
                     THEN RewriteUri(server, object.items[i])
                     ELSE RewriteName(server, object.items[i])]

\* (mutant) the first failed upstream ends the aggregation
RECURSIVE CollectUntilFailure(_, _)
CollectUntilFailure(method, results) ==
    IF results = <<>> \/ results[1][2] = None THEN <<>>
    ELSE Contribution(method, results[1][1], results[1][2])
            \o CollectUntilFailure(method, Tail(results))

\* the loop over the broadcast's results
RECURSIVE Collect(_, _)
Collect(method, results) ==
    IF results = <<>> THEN <<>>
    ELSE Contribution(method, results[1][1], results[1][2])
            \o Collect(method, Tail(results))

aggregate_tools(results) ==
    [key |-> "tools", items |-> Collect("tools/list", results)]

aggregate_prompts(results) ==
    [key |-> "prompts", items |-> Collect("prompts/list", results)]

aggregate_resources(results) ==
    [key |-> "resources", items |-> Collect("resources/list", results)]

\* the "prompts/get" arm, up to registry.call
prompts_get(l) ==
    LET name == unwrap_or(Get(l.params).name, <<>>)
        split == split_namespace(name)
    IN  IF split = None
        THEN Respond(l, ErrorResponse(l.id, -32602, "prompt name must be namespaced"))
        ELSE IF Get(split)[1] \in Registered
        THEN [l EXCEPT !.pc = "pg_wait", !.sent = TRUE,
                       !.call = Some([server |-> Get(split)[1],
                                      request |-> Request_new("prompts/get",
                                          RpcParams(Some(Get(split)[2]), None, None, None))])]
        ELSE Respond(l, ErrorResponse(l.id, -32011, "upstream prompt fetch failed"))

\* the "resources/read" arm with read_resource, up to registry.call
read_resource(l) ==
    LET failed == Respond(l, ErrorResponse(l.id, -32012, "resource read failed"))
        uri == unwrap_or(Get(l.params).uri, <<>>)
        rest == strip_prefix(uri, RouterScheme)
        split == IF rest = None THEN None ELSE split_namespace(Get(rest))
    IN  IF split = None THEN failed
        ELSE LET original == STANDARD_decode(Get(split)[2])
             IN  IF original = None \/ Get(split)[1] \notin Registered
                 THEN failed
                 ELSE [l EXCEPT !.pc = "rr_wait", !.sent = TRUE,
                                !.call = Some([server |-> Get(split)[1],
                                               request |-> Request_new("resources/read",
                                                   RpcParams(None, None, None, original))])]

\* (mutant) the default arm answers like "initialize"
handle_jsonrpc_default_result(l) ==
    LET request == Get(l.request)
        method == request.method
    IN  CASE method \in ListMethods ->
                [l EXCEPT !.pc = "bc_wait", !.sent = TRUE]
          [] method = "prompts/get" -> prompts_get(l)
          [] method = "resources/read" -> read_resource(l)
          [] method = "tools/call" ->
                EnterToolCall(ToolCallTask(l, request.id, request.params))
          [] OTHER ->
                Respond(l, ResultResponse(l.id, "capabilities"))

\* the match on the method
handle_jsonrpc(l) ==
    LET request == Get(l.request)
        method == request.method
    IN  CASE method = "initialize" ->
                Respond(l, ResultResponse(l.id, "capabilities"))
          [] method \in ListMethods ->
                [l EXCEPT !.pc = "bc_wait", !.sent = TRUE]
          [] method = "prompts/get" -> prompts_get(l)
          [] method = "resources/read" -> read_resource(l)
          [] method = "tools/call" ->
                EnterToolCall(ToolCallTask(l, request.id, request.params))
          [] OTHER ->
                Respond(l, ErrorResponse(l.id, -32601, <<"unknown method: ", method>>))

\* a request arrives and is handled up to the handler's first await
HandleJsonrpc(p) ==
    /\ procs[p].pc = "idle"
    /\ \E request \in RpcRequests :
        procs' = [procs EXCEPT ![p] =
                    handle_jsonrpc([Fresh EXCEPT !.request = Some(request),
                                                 !.op = request.method,
                                                 !.id = request.id,
                                                 !.params = Some(request.params)])]
    /\ UNCHANGED <<db, usage_counters, cache, now, quota, codec, stdio, registry, http, sse, keys>>

\* registry.call(server, "tools/call").await completes
ToolCallReply(p) ==
    /\ procs[p].pc = "tc_wait"
    /\ \E reply \in RpcResults :
        procs' = [procs EXCEPT ![p] =
                    ToolCallReturn([procs[p] EXCEPT !.got = Some(reply)], reply)]
    /\ UNCHANGED <<db, usage_counters, cache, now, quota, codec, stdio, registry, http, sse, keys>>

\* registry.call(server, "prompts/get").await completes
PromptsGetReply(p) ==
    /\ procs[p].pc = "pg_wait"
    /\ \E reply \in RpcResults :
        LET l == [procs[p] EXCEPT !.got = Some(reply)]
        IN  procs' = [procs EXCEPT ![p] =
                IF reply = None
                THEN Respond(l, ErrorResponse(l.id, -32011, "upstream prompt fetch failed"))
                ELSE Respond(l, Get(reply))]
    /\ UNCHANGED <<db, usage_counters, cache, now, quota, codec, stdio, registry, http, sse, keys>>

\* registry.call(server, "resources/read").await completes in read_resource
ReadResourceReply(p) ==
    /\ procs[p].pc = "rr_wait"
    /\ \E reply \in RpcResults :
        LET l == [procs[p] EXCEPT !.got = Some(reply)]
        IN  procs' = [procs EXCEPT ![p] =
                IF reply = None \/ Get(reply).result = None
                THEN Respond(l, ErrorResponse(l.id, -32012, "resource read failed"))
                ELSE Respond(l, ResultResponse(l.id, Get(Get(reply).result)))]
    /\ UNCHANGED <<db, usage_counters, cache, now, quota, codec, stdio, registry, http, sse, keys>>

\* registry.broadcast(..).await completes and the aggregate is returned
BroadcastReply(p) ==
    /\ procs[p].pc = "bc_wait"
    /\ \E results \in Broadcasts(procs[p].op) :
        LET l == [procs[p] EXCEPT !.got = Some(results)]
        IN  procs' = [procs EXCEPT ![p] =
                Respond(l, ResultResponse(l.id,
                    CASE l.op = "tools/list" -> aggregate_tools(results)
                      [] l.op = "prompts/list" -> aggregate_prompts(results)
                      [] l.op = "resources/list" -> aggregate_resources(results)))]
    /\ UNCHANGED <<db, usage_counters, cache, now, quota, codec, stdio, registry, http, sse, keys>>

\* (mutant) the error is returned to the client
RecordUsageFailedPropagates(l) ==
    Respond([l EXCEPT !.err = "record_usage failed"],
            ErrorResponse(l.id, -32603, "failed to record usage"))

\* what handle_tool_call returns when record_usage returned Err: the error
\* is logged
RecordUsageFailed(l) ==
    Finished([l EXCEPT !.err = "record_usage failed"])

\* the UPDATE of record_usage fails: `?` returns the error
RuUpdateFails(p) ==
    /\ procs[p].pc = "ru_update"
    /\ procs' = [procs EXCEPT ![p] = RecordUsageFailed(procs[p])]
    /\ UNCHANGED <<db, usage_counters, cache, now, quota, codec, stdio, registry, http, sse, keys>>

\* the INSERT of record_usage fails: `?` returns the error
RuInsertFails(p) ==
    /\ procs[p].pc = "ru_insert"
    /\ procs' = [procs EXCEPT ![p] = RecordUsageFailed(procs[p])]
    /\ UNCHANGED <<db, usage_counters, cache, now, quota, codec, stdio, registry, http, sse, keys>>

\* u1 holds a Pro subscription with nothing used, u2 none
InitRpc ==
    /\ db = [u \in Users |->
                IF u = "u1"
                THEN SqlUpsertSubscription([v \in Users |-> None], u, "Pro", None,
                                           TierPreset("Pro", None))[u]
                ELSE None]
    /\ usage_counters = [u \in Users |-> [rows |-> 0, tokens |-> 0]]
    /\ cache = [u \in Users |-> None]
    /\ now = 1
    /\ procs = [p \in Procs |-> Fresh]
    /\ quota = NoQuota
    /\ codec = NoCodec
    /\ stdio = NoStdio
    /\ registry = NoRegistry
    /\ http = NoHttp
    /\ sse = NoSse
    /\ keys = NoKeys

NextRpc ==
    \E p \in Handlers :
        \/ HandleJsonrpc(p)
        \/ ToolCallReply(p)
        \/ PromptsGetReply(p)
        \/ ReadResourceReply(p)
        \/ BroadcastReply(p)
        \/ GsRead(p)
        \/ GsSelect(p)
        \/ GsInsert(p)
        \/ RuUpdate(p)
        \/ RuInsert(p)
        \/ RuInvalidate(p)
        \/ RuUpdateFails(p)
        \/ RuInsertFails(p)

SpecRpc == InitRpc /\ [][NextRpc]_vars

(***************************************************************************)
(* The resource-uri codec of util.rs on its own: a (server, upstream_uri)  *)
(* pair is encoded and the result decoded, and a text of any shape is      *)
(* decoded.                                                                *)
(***************************************************************************)
CodecServers ==
    {<<>>, <<"a">>, <<"s", "r", "v">>, <<"a", "/", "b">>, <<"/">>}

CodecUris ==
    {<<>>, <<"x">>, <<"x", "y">>, <<"x", "y", "z">>,
     <<"f", "i", "l", "e", ":", "/", "/", "/", "x">>,
     <<"?", "?", ">">>, <<"~", "~", "~", "~">>, <<" ", "/">>}

CodecTexts ==
    {<<>>, <<"e", "A", "=", "=">>, <<"a", "/", "e", "A", "=", "=">>,
     <<"f", "i", "l", "e", ":", "/", "/", "a", "/", "e", "A", "=", "=">>,
     <<"m", "c", "p", ":", "/", "/", "a", "/", "e", "A", "=", "=">>,
     RouterScheme, RouterScheme \o <<"a">>,
     RouterScheme \o <<"a", "e", "A", "=", "=">>,
     RouterScheme \o <<"a", "/", "e", "A", "=", "=">>,
     RouterScheme \o <<"a", "/", "e", "A", "=">>,
     RouterScheme \o <<"a", "/", "e", "B", "=", "=">>,
     RouterScheme \o <<"a", "/", "!">>,
     RouterScheme \o <<"a", "/">>}

InitCodec ==
    /\ db = [u \in Users |-> None]
    /\ usage_counters = [u \in Users |-> [rows |-> 0, tokens |-> 0]]
    /\ cache = [u \in Users |-> None]
    /\ now = 1
    /\ procs = [p \in Procs |-> Fresh]
    /\ quota = NoQuota
    /\ \E server \in CodecServers, upstream_uri \in CodecUris, text \in CodecTexts :
        codec = [NoCodec EXCEPT !.server = server,
                                !.upstream_uri = upstream_uri,
                                !.text = text]
    /\ stdio = NoStdio
    /\ registry = NoRegistry
    /\ http = NoHttp
    /\ sse = NoSse
    /\ keys = NoKeys

EncodeResourceUri ==
    /\ codec.encoded = None
    /\ codec' = [codec EXCEPT
            !.encoded = Some(encode_resource_uri(codec.server, codec.upstream_uri))]
    /\ UNCHANGED <<db, usage_counters, cache, now, procs, quota, stdio, registry, http, sse, keys>>

DecodeResourceUri ==
    /\ IsSome(codec.encoded)
    /\ codec.decoded = None
    /\ codec' = [codec EXCEPT
            !.decoded = Some(decode_resource_uri(Get(codec.encoded)))]
    /\ UNCHANGED <<db, usage_counters, cache, now, procs, quota, stdio, registry, http, sse, keys>>

DecodeText ==
    /\ codec.parsed = None
    /\ codec' = [codec EXCEPT !.parsed = Some(decode_resource_uri(codec.text))]
    /\ UNCHANGED <<db, usage_counters, cache, now, procs, quota, stdio, registry, http, sse, keys>>

NextCodec ==
    \/ EncodeResourceUri
    \/ DecodeResourceUri
    \/ DecodeText

SpecCodec == InitCodec /\ [][NextCodec]_vars

(***************************************************************************)
(* StdioUpstream: one driver, its tasks and its children.  A request line  *)
(* is the serial number of its call, and a child answers a request line    *)
(* with the same number, so that a response can be traced to its request.  *)
(* A child may close its stdout or exit at any moment.                     *)
(***************************************************************************)
StdioIdle ==
    <<db, usage_counters, cache, now, procs, quota, codec, registry, http, sse, keys>>

\* a task enters StdioUpstream::call and waits for state.lock()
StdioStartCall(t) ==
    /\ stdio.tasks[t].pc \in {"idle", "done"}
    /\ stdio.calls < MaxRequests
    /\ stdio' = [stdio EXCEPT
            !.calls = @ + 1,
            !.tasks[t] = [NoCall EXCEPT !.pc = "lock", !.req = stdio.calls + 1]]
    /\ UNCHANGED StdioIdle

\* (mutant) only a missing state respawns: the child is not polled
ensure_process_unpolled(t, poll_failed, spawn_ok) ==
    LET found == IF stdio.state = None THEN None
                 ELSE Some([child |-> Get(stdio.state),
                            exited |-> stdio.children[Get(stdio.state)].exited])
        respawn == stdio.state = None
        child == stdio.spawned + 1
    IN  IF ~respawn
        THEN [stdio EXCEPT !.holder = t,
                           !.tasks[t].pc = "write",
                           !.tasks[t].found = found,
                           !.tasks[t].child = Get(stdio.state)]
        ELSE IF ~spawn_ok
        THEN [stdio EXCEPT !.state = None,
                           !.tasks[t].pc = "done",
                           !.tasks[t].found = found,
                           !.tasks[t].out = "spawn"]
        ELSE [stdio EXCEPT !.state = Some(child),
                           !.holder = t,
                           !.spawned = child,
                           !.children[child] = [NoChild EXCEPT !.spawned = TRUE],
                           !.tasks[t].pc = "write",
                           !.tasks[t].found = found,
                           !.tasks[t].child = child]

\* ensure_process once the lock is taken: try_wait on the child in state,
\* a respawn if there is none, if it has exited or if the poll fails
ensure_process(t, poll_failed, spawn_ok) ==
    LET found == IF stdio.state = None THEN None
                 ELSE Some([child |-> Get(stdio.state),
                            exited |-> stdio.children[Get(stdio.state)].exited])
        respawn == found = None \/ Get(found).exited \/ poll_failed
        child == stdio.spawned + 1
    IN  IF ~respawn
        THEN [stdio EXCEPT !.holder = t,
                           !.tasks[t].pc = "write",
                           !.tasks[t].found = found,
                           !.tasks[t].child = Get(stdio.state)]
        ELSE IF ~spawn_ok
        THEN [stdio EXCEPT !.state = None,
                           !.tasks[t].pc = "done",
                           !.tasks[t].found = found,
                           !.tasks[t].out = "spawn"]
        ELSE [stdio EXCEPT !.state = Some(child),
                           !.holder = t,
                           !.spawned = child,
                           !.children[child] = [NoChild EXCEPT !.spawned = TRUE],
                           !.tasks[t].pc = "write",
                           !.tasks[t].found = found,
                           !.tasks[t].child = child]

\* state.lock().await completes and ensure_process runs to its end
EnsureProcess(t) ==
    /\ stdio.tasks[t].pc = "lock"
    /\ stdio.holder = 0
    /\ \E poll_failed \in IF stdio.state = None THEN {FALSE} ELSE BOOLEAN,
          spawn_ok \in BOOLEAN :
            /\ spawn_ok => stdio.spawned < MaxChildren
            /\ stdio' = ensure_process(t, poll_failed, spawn_ok)
    /\ UNCHANGED StdioIdle

\* write_all(payload), write_all("\n") and flush: the line reaches the pipe,
\* or the pipe of an exited child refuses it and `?` returns the error
StdioWrite(t) ==
    /\ stdio.tasks[t].pc = "write"
    /\ LET child == stdio.tasks[t].child
       IN  stdio' =
            IF stdio.children[child].exited
            THEN [stdio EXCEPT !.holder = 0,
                               !.tasks[t].pc = "done",
                               !.tasks[t].out = "write"]
            ELSE [stdio EXCEPT !.children[child].stdin = Append(@, stdio.tasks[t].req),
                               !.tasks[t].pc = "read"]
    /\ UNCHANGED StdioIdle

\* (mutant) StdioGuard::reset leaves the state in place
reset_keeps(l) == l

\* StdioGuard::reset
reset(l) == [l EXCEPT !.state = None]

\* read_line completes: with the next line of the child's stdout, or with
\* zero bytes once the child has closed it
StdioReadLine(t) ==
    /\ stdio.tasks[t].pc = "read"
    /\ LET child == stdio.tasks[t].child
           stdout == stdio.children[child].stdout
       IN  /\ stdout # <<>> \/ stdio.children[child].eof
           /\ stdio' =
                IF stdout # <<>>
                THEN [stdio EXCEPT !.holder = 0,
                                   !.children[child].stdout = Tail(stdout),
                                   !.tasks[t].pc = "done",
                                   !.tasks[t].out = "Ok",
                                   !.tasks[t].resp = Head(stdout)]
                ELSE reset([stdio EXCEPT !.holder = 0,
                                         !.closed = @ \cup {child},
                                         !.tasks[t].pc = "done",
                                         !.tasks[t].out = "closed"])
    /\ UNCHANGED StdioIdle

\* read_line returns an io error and `?` returns it: the StdioGuard is
\* dropped, the state stays as it is
StdioReadError(t) ==
    /\ stdio.tasks[t].pc = "read"
    /\ stdio' = [stdio EXCEPT !.holder = 0,
                              !.failed = @ \cup {stdio.tasks[t].child},
                              !.tasks[t].pc = "done",
                              !.tasks[t].out = "read"]
    /\ UNCHANGED StdioIdle

\* the future of a call is dropped at an await: its MutexGuard, if it holds
\* one, is released, and nothing else is done
StdioCancel(t) ==
    /\ stdio.tasks[t].pc \in {"lock", "write", "read"}
    /\ stdio' = [stdio EXCEPT
            !.holder = IF stdio.tasks[t].pc = "lock" THEN @ ELSE 0,
            !.abandoned = IF stdio.tasks[t].pc = "read"
                          THEN @ \cup {stdio.tasks[t].child} ELSE @,
            !.tasks[t].pc = "done",
            !.tasks[t].out = "cancelled"]
    /\ UNCHANGED StdioIdle

\* the child reads a request line and writes the response line
ChildAnswers(g) ==
    /\ stdio.children[g].spawned
    /\ ~stdio.children[g].eof
    /\ stdio.children[g].stdin # <<>>
    /\ stdio' = [stdio EXCEPT
            !.children[g].stdin = Tail(@),
            !.children[g].stdout = Append(@, Head(stdio.children[g].stdin)),
            !.children[g].served = @ \cup {Head(stdio.children[g].stdin)}]
    /\ UNCHANGED StdioIdle

\* the child closes its stdout
ChildCloses(g) ==
    /\ stdio.children[g].spawned
    /\ ~stdio.children[g].eof
    /\ stdio' = [stdio EXCEPT !.children[g].eof = TRUE]
    /\ UNCHANGED StdioIdle

\* the child exits
ChildExits(g) ==
    /\ stdio.children[g].spawned
    /\ ~stdio.children[g].exited
    /\ stdio' = [stdio EXCEPT !.children[g].eof = TRUE,
                              !.children[g].exited = TRUE]
    /\ UNCHANGED StdioIdle

InitStdio ==
    /\ db = [u \in Users |-> None]
    /\ usage_counters = [u \in Users |-> [rows |-> 0, tokens |-> 0]]
    /\ cache = [u \in Users |-> None]
    /\ now = 1
    /\ procs = [p \in Procs |-> Fresh]
    /\ quota = NoQuota
    /\ codec = NoCodec
    /\ stdio = NoStdio
    /\ registry = NoRegistry
    /\ http = NoHttp
    /\ sse = NoSse
    /\ keys = NoKeys

NextStdio ==
    \/ \E t \in Callers :
        \/ StdioStartCall(t)
        \/ EnsureProcess(t)
        \/ StdioWrite(t)
        \/ StdioReadLine(t)
        \/ StdioReadError(t)
        \/ StdioCancel(t)
    \/ \E g \in Children :
        \/ ChildAnswers(g)
        \/ ChildCloses(g)
        \/ ChildExits(g)

SpecStdio == InitStdio /\ [][NextStdio]_vars

(***************************************************************************)
(* UpstreamRegistry and UpstreamHandle: register, call and                 *)
(* ensure_initialized on one registry.  Handles are numbered in the order  *)
(* register builds them.                                                   *)
(***************************************************************************)
RegIdle ==
    <<db, usage_counters, cache, now, procs, quota, codec, stdio, http, sse, keys>>

Kinds == {"stdio", "http", "HTTP"}

\* str::to_lowercase on the kinds of the model
to_lowercase(text) == IF text = "HTTP" THEN "http" ELSE text

\* UpstreamRegistration::kind
kind(registration) ==
    IF to_lowercase(registration.kind) = "http" THEN "Http" ELSE "Stdio"

Registrations ==
    [name : Registered, kind : Kinds,
     command : {None, Some("cmd")}, url : {None, Some("url")}]

\* (mutant) the entry of a name already present is kept
HashMapInsertKeeps(entries, name, handle) ==
    IF \E e \in entries : e.name = name THEN entries
    ELSE entries \cup {[name |-> name, handle |-> handle]}

\* HashMap::insert
HashMapInsert(entries, name, handle) ==
    {e \in entries : e.name # name} \cup {[name |-> name, handle |-> handle]}

\* HashMap::get(name).cloned()
HashMapGet(entries, name) ==
    IF \E e \in entries : e.name = name
    THEN Some((CHOOSE e \in entries : e.name = name).handle)
    ELSE None

\* (mutant) a registration is accepted without its command or url
register_unchecked(r, registration, built) ==
    IF kind(registration) = "Http" /\ ~built
    THEN [r EXCEPT !.last = Some([registration |-> registration, out |-> "Err",
                                  before |-> r.entries])]
    ELSE LET handle == r.made + 1
         IN  [r EXCEPT
                !.made = handle,
                !.handles[handle] = [NoHandle EXCEPT !.name = registration.name,
                                                     !.kind = kind(registration)],
                !.entries = HashMapInsert(@, registration.name, handle),
                !.last = Some([registration |-> registration, out |-> "Ok",
                               before |-> r.entries])]

\* UpstreamRegistry::register; built: reqwest's client builder succeeded
register(r, registration, built) ==
    LET failed == [r EXCEPT
                    !.last = Some([registration |-> registration, out |-> "Err",
                                   before |-> r.entries])]
        handle == r.made + 1
    IN  IF kind(registration) = "Http" /\ (registration.url = None \/ ~built)
        THEN failed
        ELSE IF kind(registration) = "Stdio" /\ registration.command = None
        THEN failed
        ELSE [r EXCEPT
                !.made = handle,
                !.handles[handle] = [NoHandle EXCEPT !.name = registration.name,
                                                     !.kind = kind(registration)],
                !.entries = HashMapInsert(@, registration.name, handle),
                !.last = Some([registration |-> registration, out |-> "Ok",
                               before |-> r.entries])]

Register ==
    /\ \E registration \in Registrations, built \in BOOLEAN :
        /\ registry.made < MaxHandles
        /\ kind(registration) = "Stdio" => built
        /\ registry' = register(registry, registration, built)
    /\ UNCHANGED RegIdle

\* the handle register built last for a name (0: none)
Latest(r, name) ==
    LET built == {h \in 1..r.made : r.handles[h].name = name}
    IN  IF built = {} THEN 0 ELSE CHOOSE h \in built : \A g \in built : g <= h

\* UpstreamRegistry::call up to handle.call(request).await
RegStartCall(t) ==
    /\ registry.tasks[t].pc \in {"idle", "done"}
    /\ registry.ops < MaxRegOps
    /\ \E name \in Registered :
        LET handle == HashMapGet(registry.entries, name)
            l == [NoRegTask EXCEPT !.op = "call", !.name = name,
                                   !.latest = Latest(registry, name)]
        IN  registry' = [registry EXCEPT
                !.ops = @ + 1,
                !.tasks[t] =
                    IF handle = None
                    THEN [l EXCEPT !.pc = "done", !.out = "unknown upstream"]
                    ELSE [l EXCEPT !.pc = "call_wait", !.handle = Get(handle)]]
    /\ UNCHANGED RegIdle

\* handle.call(request).await completes
RegCallReply(t) ==
    /\ registry.tasks[t].pc = "call_wait"
    /\ \E out \in {"Ok", "Err"} :
        registry' = [registry EXCEPT !.tasks[t].pc = "done", !.tasks[t].out = out]
    /\ UNCHANGED RegIdle

\* the orders HashMap::values may yield the entries in
ValuesOrders(entries) ==
    {o \in [1..Cardinality(entries) -> {e.handle : e \in entries}] :
        \A i, j \in 1..Cardinality(entries) : i # j => o[i] # o[j]}

\* ensure_initialized moves on to the next handle of its list, or returns
NextHandle(l) ==
    IF Len(l.todo) <= 1
    THEN [l EXCEPT !.pc = "done", !.todo = <<>>, !.out = "Ok"]
    ELSE [l EXCEPT !.pc = "init_next", !.todo = Tail(@)]

\* ensure_initialized: self.list()
StartEnsureInitialized(t) ==
    /\ registry.tasks[t].pc \in {"idle", "done"}
    /\ registry.ops < MaxRegOps
    /\ \E todo \in ValuesOrders(registry.entries) :
        LET l == [NoRegTask EXCEPT !.op = "ensure_initialized", !.todo = todo]
        IN  registry' = [registry EXCEPT
                !.ops = @ + 1,
                !.tasks[t] = IF todo = <<>> THEN NextHandle(l)
                             ELSE [l EXCEPT !.pc = "init_next"]]
    /\ UNCHANGED RegIdle

\* UpstreamHandle::initialize up to self.call(request).await: the memoized
\* info is returned, or the initialize request is sent
Initialize(t) ==
    /\ registry.tasks[t].pc = "init_next"
    /\ LET l == registry.tasks[t]
           handle == Head(l.todo)
           info == registry.handles[handle].info
       IN  registry' =
            IF IsSome(info)
            THEN [registry EXCEPT
                    !.tasks[t] = NextHandle([l EXCEPT
                        !.infos = Append(@, <<registry.handles[handle].name, Get(info)>>),
                        !.ok = @ \cup {handle}])]
            ELSE [registry EXCEPT
                    !.handles[handle].sends = @ + 1,
                    !.tasks[t].pc = "init_wait"]
    /\ UNCHANGED RegIdle

\* self.call(request).await completes in initialize: an error, a response
\* without result, or a result, which is memoized
InitializeReply(t) ==
    /\ registry.tasks[t].pc = "init_wait"
    /\ LET l == registry.tasks[t]
           handle == Head(l.todo)
       IN  \E reply \in {"Err", "no result", "result"} :
            registry' =
                IF reply = "result"
                THEN [registry EXCEPT
                        !.handles[handle].info = Some("info"),
                        !.tasks[t] = NextHandle([l EXCEPT
                            !.infos = Append(@, <<registry.handles[handle].name, "info">>),
                            !.ok = @ \cup {handle}])]
                ELSE [registry EXCEPT !.tasks[t] = NextHandle(l)]
    /\ UNCHANGED RegIdle

InitRegistry ==
    /\ db = [u \in Users |-> None]
    /\ usage_counters = [u \in Users |-> [rows |-> 0, tokens |-> 0]]
    /\ cache = [u \in Users |-> None]
    /\ now = 1
    /\ procs = [p \in Procs |-> Fresh]
    /\ quota = NoQuota
    /\ codec = NoCodec
    /\ stdio = NoStdio
    /\ registry = NoRegistry
    /\ http = NoHttp
    /\ sse = NoSse
    /\ keys = NoKeys

NextRegistry ==
    \/ Register
    \/ \E t \in RegTasks :
        \/ RegStartCall(t)
        \/ RegCallReply(t)
        \/ StartEnsureInitialized(t)
        \/ Initialize(t)
        \/ InitializeReply(t)

SpecRegistry == InitRegistry /\ [][NextRegistry]_vars

(***************************************************************************)
(* Bearer authentication (auth.rs) in front of POST /mcp and of an admin   *)
(* endpoint.  http.bearer is the AuthConfig of the router, authorization   *)
(* the Authorization header of the one request received, status 401 the    *)
(* rejection of the extractor, dispatched whether the handler body ran.    *)
(***************************************************************************)
Secret == <<"s">>

BearerPrefix == <<"B", "e", "a", "r", "e", "r", " ">>

\* the Authorization header of a request: absent, or its value; "<233>" is
\* a byte no header value can show as text
AuthHeaders ==
    {None,
     Some(BearerPrefix \o Secret),
     Some(BearerPrefix \o <<"x">>),
     Some(BearerPrefix),
     Some(BearerPrefix \o Secret \o <<" ">>),
     Some(BearerPrefix \o <<" ">> \o Secret),
     Some(<<"b", "e", "a", "r", "e", "r", " ">> \o Secret),
     Some(<<"B", "a", "s", "i", "c", " ">> \o Secret),
     Some(Secret),
     Some(BearerPrefix \o <<"<233>">>)}

\* HeaderValue::to_str: Ok for visible ASCII and tab only
to_str(value) ==
    IF \A i \in 1..Len(value) :
          \E k \in 1..128 : /\ Ascii[k] = value[i]
                            /\ (k - 1 = 9 \/ (k - 1 >= 32 /\ k - 1 <= 126))
    THEN Some(value)
    ELSE None

\* validate that lets any presented token through
validate_any(bearer, provided) ==
    IF IsSome(bearer) THEN IsSome(provided) ELSE TRUE

\* AuthConfig::validate: TRUE for Ok(())
validate(bearer, provided) ==
    IF IsSome(bearer)
    THEN IsSome(provided) /\ Get(bearer) = Get(provided)
    ELSE TRUE

\* BearerToken::from_request_parts: the token of the header, and whether
\* the configuration admits it
from_request_parts(bearer, authorization) ==
    LET text  == IF IsSome(authorization) THEN to_str(Get(authorization)) ELSE None
        token == IF IsSome(text) THEN strip_prefix(Get(text), BearerPrefix) ELSE None
    IN  validate(bearer, token)

\* POST /mcp: the extractor, then handle_jsonrpc up to its first await
HandleRpc(p) ==
    /\ procs[p].pc = "idle"
    /\ http.endpoint = "none"
    /\ \E authorization \in AuthHeaders, request \in RpcRequests :
        IF from_request_parts(http.bearer, authorization)
        THEN /\ http' = [http EXCEPT !.authorization = authorization,
                                     !.endpoint = "/mcp", !.dispatched = TRUE]
             /\ procs' = [procs EXCEPT ![p] =
                            handle_jsonrpc([Fresh EXCEPT !.request = Some(request),
                                                         !.op = request.method,
                                                         !.id = request.id,
                                                         !.params = Some(request.params)])]
        ELSE /\ http' = [http EXCEPT !.authorization = authorization,
                                     !.endpoint = "/mcp", !.status = 401]
             /\ UNCHANGED procs
    /\ UNCHANGED <<db, usage_counters, cache, now, quota, codec, stdio, registry, sse, keys>>

\* POST /subscriptions: the extractor, then store.upsert_subscription
AdminUpsertSubscription(p) ==
    /\ procs[p].pc = "idle"
    /\ http.endpoint = "none"
    /\ \E authorization \in AuthHeaders, u \in Subscribers, a \in UpsertArgs :
        IF from_request_parts(http.bearer, authorization)
        THEN /\ http' = [http EXCEPT !.authorization = authorization,
                                     !.endpoint = "/subscriptions",
                                     !.dispatched = TRUE]
             /\ procs' = [procs EXCEPT ![p] =
                            [Fresh EXCEPT !.op = "upsert_subscription",
                                          !.user = Some(u), !.args = Some(a),
                                          !.pc = "us_write"]]
        ELSE /\ http' = [http EXCEPT !.authorization = authorization,
                                     !.endpoint = "/subscriptions",
                                     !.status = 401]
             /\ UNCHANGED procs
    /\ UNCHANGED <<db, usage_counters, cache, now, quota, codec, stdio, registry, sse, keys>>

\* the state of InitRpc behind a router started with or without a bearer
InitAuth ==
    /\ db = [u \in Users |->
                IF u = "u1"
                THEN SqlUpsertSubscription([v \in Users |-> None], u, "Pro", None,
                                           TierPreset("Pro", None))[u]
                ELSE None]
    /\ usage_counters = [u \in Users |-> [rows |-> 0, tokens |-> 0]]
    /\ cache = [u \in Users |-> None]
    /\ now = 1
    /\ procs = [p \in Procs |-> Fresh]
    /\ quota = NoQuota
    /\ codec = NoCodec
    /\ stdio = NoStdio
    /\ registry = NoRegistry
    /\ http \in {[NoHttp EXCEPT !.bearer = b] : b \in {None, Some(Secret)}}
    /\ sse = NoSse
    /\ keys = NoKeys

NextAuth ==
    \E p \in Handlers :
        \/ HandleRpc(p)
        \/ AdminUpsertSubscription(p)
        \/ ToolCallReply(p)
        \/ PromptsGetReply(p)
        \/ ReadResourceReply(p)
        \/ BroadcastReply(p)
        \/ GsRead(p)
        \/ GsSelect(p)
        \/ GsInsert(p)
        \/ UsWrite(p)
        \/ UsInvalidate(p)
        \/ RuUpdate(p)
        \/ RuInsert(p)
        \/ RuInvalidate(p)
        \/ RuUpdateFails(p)
        \/ RuInsertFails(p)

SpecAuth == InitAuth /\ [][NextAuth]_vars

(***************************************************************************)
(* Provider keys (subs.rs, crypto.rs).  keys holds the providers table     *)
(* (slug -> id, 0 for no row), the provider_keys table, the suspended      *)
(* store_provider_key call, the result of the latest call, and for every  *)
(* (slug, name) the plaintexts stored so far, latest last.                 *)
(***************************************************************************)
MaxKeyOps == 4

Slugs == {"openai", "other"}

KeyNames == {"api_key", "org"}

\* the values handed to store_provider_key, as bytes
Plaintexts == {<<>>, <<115>>, <<115, 107>>}

\* a nonce is NonceLen bytes, the tag of AES-256-GCM TagLen bytes
NonceLen == 12

TagLen == 16

\* two of the nonces thread_rng can produce
Nonces == {[i \in 1..NonceLen |-> 1], [i \in 1..NonceLen |-> 2]}

\* the master key of the KeyManager
MasterKey == 11

RECURSIVE SumBytes(_)
SumBytes(bytes) ==
    IF bytes = <<>> THEN 0 ELSE bytes[1] + SumBytes(Tail(bytes))

\* the key stream of the cipher at position i
KeyStream(key, nonce, i) == (key + 7 * nonce[1] + i) % 256

\* the authentication tag over the ciphertext
Tag(key, nonce, sealed) ==
    [i \in 1..TagLen |-> (SumBytes(sealed) + 3 * key + nonce[1] + i) % 256]

\* LessSafeKey::seal_in_place_append_tag
seal_in_place_append_tag(key, nonce, in_out) ==
    LET sealed == [i \in 1..Len(in_out) |->
                      (in_out[i] + KeyStream(key, nonce, i)) % 256]
    IN  sealed \o Tag(key, nonce, sealed)

\* LessSafeKey::open_in_place: None when the tag does not verify
open_in_place(key, nonce, buffer) ==
    IF Len(buffer) < TagLen
    THEN None
    ELSE LET sealed == SubSeq(buffer, 1, Len(buffer) - TagLen)
             tag    == SubSeq(buffer, Len(buffer) - TagLen + 1, Len(buffer))
         IN  IF tag = Tag(key, nonce, sealed)
             THEN Some([i \in 1..Len(sealed) |->
                          (sealed[i] + 256 - KeyStream(key, nonce, i)) % 256])
             ELSE None

\* KeyManager::encrypt under the nonce thread_rng produced
encrypt(nonce, plaintext) ==
    [nonce |-> nonce,
     encrypted |-> seal_in_place_append_tag(MasterKey, nonce, plaintext)]

\* KeyManager::decrypt: None for Err
decrypt(nonce, ciphertext) ==
    IF Len(nonce) # NonceLen
    THEN None
    ELSE open_in_place(MasterKey, nonce, ciphertext)

\* (provider_id, name) is the primary key of provider_keys
ProviderKeyConflict(row, provider_id, name) ==
    row.provider_id = provider_id /\ row.name = name

\* INSERT .. ON CONFLICT(provider_id, name) DO NOTHING
SqlInsertProviderKeyOnce(rows, provider_id, name, encrypted_value, nonce) ==
    IF \E row \in rows : ProviderKeyConflict(row, provider_id, name)
    THEN rows
    ELSE rows \cup {[provider_id |-> provider_id, name |-> name,
                     encrypted_value |-> encrypted_value, nonce |-> nonce]}

\* INSERT .. ON CONFLICT(provider_id, name) DO UPDATE SET encrypted_value,
\* nonce
SqlUpsertProviderKey(rows, provider_id, name, encrypted_value, nonce) ==
    {row \in rows : ~ProviderKeyConflict(row, provider_id, name)}
        \cup {[provider_id |-> provider_id, name |-> name,
               encrypted_value |-> encrypted_value, nonce |-> nonce]}

\* SELECT .. FROM provider_keys WHERE provider_id = (SELECT id FROM
\* providers WHERE slug = ?1 LIMIT 1) AND name = ?2
SqlSelectProviderKey(providers, rows, slug, name) ==
    {row \in rows : providers[slug] # 0 /\ ProviderKeyConflict(row, providers[slug], name)}

NoKeyTask == [pc |-> "idle", slug |-> "", name |-> "", value |-> <<>>, provider_id |-> 0]

KeysInit ==
    [providers |-> [s \in Slugs |-> 0],
     made |-> 0,
     rows |-> {},
     task |-> NoKeyTask,
     last |-> None,
     ops |-> 0,
     stored |-> [s \in Slugs |-> [n \in KeyNames |-> <<>>]]]

KeysIdle == <<db, usage_counters, cache, now, procs, quota, codec, stdio, registry,
              http, sse>>

\* put_provider: a new row gets a new id, an existing one keeps its id
PutProvider ==
    /\ keys.ops < MaxKeyOps
    /\ \E slug \in Slugs :
        keys' = [keys EXCEPT
                    !.providers[slug] = IF @ = 0 THEN keys.made + 1 ELSE @,
                    !.made = IF keys.providers[slug] = 0 THEN @ + 1 ELSE @,
                    !.last = Some([op |-> "put_provider", slug |-> slug, name |-> "",
                                   ok |-> TRUE, value |-> None]),
                    !.ops = @ + 1]
    /\ UNCHANGED KeysIdle

\* store_provider_key up to the INSERT: the provider is selected with
\* fetch_one, which fails when there is no row
StoreSelectProvider ==
    /\ keys.ops < MaxKeyOps
    /\ keys.task.pc = "idle"
    /\ \E slug \in Slugs, name \in KeyNames, value \in Plaintexts :
        IF keys.providers[slug] = 0
        THEN keys' = [keys EXCEPT
                        !.last = Some([op |-> "store_provider_key", slug |-> slug,
                                       name |-> name, ok |-> FALSE, value |-> None]),
                        !.ops = @ + 1]
        ELSE keys' = [keys EXCEPT
                        !.task = [pc |-> "insert", slug |-> slug, name |-> name,
                                  value |-> value,
                                  provider_id |-> keys.providers[slug]],
                        !.ops = @ + 1]
    /\ UNCHANGED KeysIdle

\* the value is encrypted under a fresh nonce and the row written
StoreInsert ==
    /\ keys.task.pc = "insert"
    /\ \E nonce \in Nonces :
        LET t == keys.task
            sealed == encrypt(nonce, t.value)
        IN  keys' = [keys EXCEPT
                        !.rows = SqlUpsertProviderKey(@, t.provider_id, t.name,
                                                      sealed.encrypted, sealed.nonce),
                        !.task = NoKeyTask,
                        !.last = Some([op |-> "store_provider_key", slug |-> t.slug,
                                       name |-> t.name, ok |-> TRUE, value |-> None]),
                        !.stored[t.slug][t.name] = Append(@, t.value)]
    /\ UNCHANGED KeysIdle

\* fetch_provider_key
FetchProviderKey ==
    /\ keys.ops < MaxKeyOps
    /\ \E slug \in Slugs, name \in KeyNames :
        LET found == SqlSelectProviderKey(keys.providers, keys.rows, slug, name)
        IN  \/ /\ found = {}
               /\ keys' = [keys EXCEPT
                            !.last = Some([op |-> "fetch_provider_key", slug |-> slug,
                                           name |-> name, ok |-> TRUE, value |-> None]),
                            !.ops = @ + 1]
            \/ \E row \in found :
                LET plaintext == decrypt(row.nonce, row.encrypted_value)
                IN  keys' = [keys EXCEPT
                                !.last = Some([op |-> "fetch_provider_key",
                                               slug |-> slug, name |-> name,
                                               ok |-> IsSome(plaintext),
                                               value |-> IF IsSome(plaintext)
                                                         THEN Some(plaintext)
                                                         ELSE None]),
                                !.ops = @ + 1]
    /\ UNCHANGED KeysIdle

InitKeys ==
    /\ db = [u \in Users |-> None]
    /\ usage_counters = [u \in Users |-> [rows |-> 0, tokens |-> 0]]
    /\ cache = [u \in Users |-> None]
    /\ now = 1
    /\ procs = [p \in Procs |-> Fresh]
    /\ quota = NoQuota
    /\ codec = NoCodec
    /\ stdio = NoStdio
    /\ registry = NoRegistry
    /\ http = NoHttp
    /\ sse = NoSse
    /\ keys = KeysInit

NextKeys ==
    \/ PutProvider
    \/ StoreSelectProvider
    \/ StoreInsert
    \/ FetchProviderKey

SpecKeys == InitKeys /\ [][NextKeys]_vars

(***************************************************************************)
(* The event hub (sse.rs): a tokio broadcast channel.  sse.tail is the     *)
(* position the next event takes, sse.buffer the ring of slots, each with  *)
(* the position and the event it holds, and every subscriber has its       *)
(* receiver: next is the position it reads next, got the events it read,   *)
(* last its latest read, with the position it read from and the number of  *)
(* events it was behind.                                                   *)
(***************************************************************************)
HubCapacity == 2

MaxPublish == 5

Receivers == {1, 2}

NoReceiver == [active |-> FALSE, next |-> 0, got |-> <<>>, lags |-> 0, last |-> None]

\* SseHub::new: broadcast::channel(capacity), no slot written
HubInit ==
    [tail |-> 0,
     buffer |-> [i \in 0..(HubCapacity - 1) |-> [pos |-> -1, event |-> 0]],
     rx |-> [s \in Receivers |-> NoReceiver]]

\* Sender::send: with no receiver the event is dropped, otherwise it takes
\* the slot of the tail position whatever that slot holds
send(hub, event) ==
    IF \A s \in Receivers : ~hub.rx[s].active
    THEN hub
    ELSE [hub EXCEPT !.buffer[hub.tail % HubCapacity] = [pos |-> hub.tail, event |-> event],
                     !.tail = @ + 1]

\* a lagging receiver that moves to the tail, losing the retained events
oldest_none(hub) == hub.tail

\* the position of the oldest event the ring retains
oldest(hub) == hub.tail - HubCapacity

\* Receiver::recv for a receiver with something to read: the slot of its
\* position still holds that position, or the receiver has lagged and is
\* moved to the oldest retained event
recv(hub, s) ==
    LET r    == hub.rx[s]
        slot == hub.buffer[r.next % HubCapacity]
    IN  IF slot.pos = r.next
        THEN [r EXCEPT !.next = @ + 1,
                       !.got = Append(@, slot.event),
                       !.last = Some([kind |-> "event", event |-> slot.event,
                                      skipped |-> 0, from |-> r.next,
                                      behind |-> hub.tail - r.next])]
        ELSE [r EXCEPT !.next = oldest(hub),
                       !.lags = @ + 1,
                       !.last = Some([kind |-> "lagged", event |-> 0,
                                      skipped |-> oldest(hub) - r.next,
                                      from |-> r.next,
                                      behind |-> hub.tail - r.next])]

SseIdle == <<db, usage_counters, cache, now, procs, quota, codec, stdio, registry,
             http, keys>>

\* SseHub::subscribe: the receiver starts at the tail
Subscribe(s) ==
    /\ ~sse.rx[s].active
    /\ sse' = [sse EXCEPT !.rx[s] = [NoReceiver EXCEPT !.active = TRUE,
                                                        !.next = sse.tail]]
    /\ UNCHANGED SseIdle

\* SseHub::publish; events are numbered in publish order
Publish ==
    /\ sse.tail < MaxPublish
    /\ sse' = send(sse, sse.tail + 1)
    /\ UNCHANGED SseIdle

\* receiver.recv().await returns; with nothing to read it stays pending
Recv(s) ==
    /\ sse.rx[s].active
    /\ sse.rx[s].next # sse.tail
    /\ sse' = [sse EXCEPT !.rx[s] = recv(sse, s)]
    /\ UNCHANGED SseIdle

InitSse ==
    /\ db = [u \in Users |-> None]
    /\ usage_counters = [u \in Users |-> [rows |-> 0, tokens |-> 0]]
    /\ cache = [u \in Users |-> None]
    /\ now = 1
    /\ procs = [p \in Procs |-> Fresh]
    /\ quota = NoQuota
    /\ codec = NoCodec
    /\ stdio = NoStdio
    /\ registry = NoRegistry
    /\ http = NoHttp
    /\ sse = HubInit
    /\ keys = NoKeys

NextSse ==
    \/ Publish
    \/ \E s \in Receivers : Subscribe(s)
    \/ \E s \in Receivers : Recv(s)

SpecSse == InitSse /\ [][NextSse]_vars

(***************************************************************************)
(* The claims.                                                             *)
(***************************************************************************)
GateErrors == {"NoSubscription", "Expired", "RequestsExceeded", "TokensExceeded"}

\* C1: a tools/call that the subscription gate rejects has called no
\* upstream and has updated no counter, and is answered with an error.
C1_RejectedCallTouchesNothing ==
    \A p \in Procs :
        procs[p].err \in GateErrors =>
            /\ procs[p].pc = "done"
            /\ ~procs[p].sent
            /\ ~procs[p].wrote
            /\ IsSome(procs[p].resp) /\ IsSome(Get(procs[p].resp).error)

\* the gate has rejected a call for its token estimate while another call
\* of the same user had been forwarded and recorded
C1_Witness ==
    \E p, q \in Procs :
        /\ procs[p].err = "TokensExceeded"
        /\ procs[q].pc = "done" /\ procs[q].wrote
        /\ IsSome(db["u1"]) /\ Get(db["u1"]).tokens_used > 0

\* C2: every tools/call that reaches an upstream has passed the gate for
\* its user: params.user, else params.account.user_id, else "anonymous".
C2_EveryCallIsGated ==
    \A p \in Procs :
        procs[p].pc = "tc_wait" =>
            LET params == Get(procs[p].params)
            IN  procs[p].user =
                    Some(IF IsSome(params.user) THEN Get(params.user)
                         ELSE IF IsSome(params.account_user_id)
                         THEN Get(params.account_user_id)
                         ELSE "anonymous")

\* a write of user u's row is in progress
WriteInProgress(u) ==
    \E p \in Procs :
        /\ procs[p].user = Some(u)
        /\ procs[p].pc \in {"us_write", "us_invalidate", "ru_update", "ru_insert",
                            "ru_invalidate"}

\* C3: whenever the cache holds an entry for a user and no write of that
\* user's row is in progress, the entry equals the database row.
C3_CacheEqualsRow ==
    \A u \in Users :
        (IsSome(cache[u]) /\ ~WriteInProgress(u)) =>
            /\ IsSome(db[u])
            /\ Get(cache[u]) = RowToRecord(u, Get(db[u]))

\* C4: from every state of the store in which u has a subscription, cache
\* entry present or not, record_usage(u, k, p) followed at once by
\* get_subscription(u) returns tokens_used + k and requests_used + 1.
C4_UsageThenGet ==
    \A u \in Users, k \in {-1, 0, 1, 2} :
        IsSome(db[u]) =>
            LET after == record_usage(cache, db, usage_counters, u, k, <<"a">>)
                got == get_subscription(after.cache, after.db, u).result
            IN  /\ IsSome(got)
                /\ Get(got).tokens_used = Get(db[u]).tokens_used + k
                /\ Get(got).requests_used = Get(db[u]).requests_used + 1

\* a record_usage has completed and the cache holds an entry again, one
\* that a later write has made stale
C4_Witness ==
    \E p \in Procs :
        /\ procs[p].pc = "done" /\ procs[p].op = "record_usage" /\ procs[p].wrote
        /\ IsSome(db["u1"]) /\ IsSome(cache["u1"])
        /\ Get(cache["u1"]).requests_used < Get(db["u1"]).requests_used

\* the token amounts of the record_usage calls that have updated the row of
\* u and not yet written their usage row
RECURSIVE PendingTokens(_, _)
PendingTokens(S, u) ==
    IF S = {} THEN 0
    ELSE LET p == CHOOSE q \in S : TRUE
         IN  (IF procs[p].pc = "ru_insert" /\ procs[p].user = Some(u)
              THEN procs[p].tokens ELSE 0) + PendingTokens(S \ {p}, u)

PendingRows(u) ==
    Cardinality({p \in Procs : procs[p].pc = "ru_insert" /\ procs[p].user = Some(u)})

\* C5: under every interleaving, the counters of a row are the sum of the
\* amounts and the number of the record_usage calls made for the user
\* (each call's usage row, or the call itself between its two statements).
C5_NoLostIncrement ==
    \A u \in Users :
        IF IsSome(db[u])
        THEN /\ Get(db[u]).tokens_used = usage_counters[u].tokens + PendingTokens(Procs, u)
             /\ Get(db[u]).requests_used = usage_counters[u].rows + PendingRows(u)
        ELSE usage_counters[u].rows = 0

\* two record_usage calls of one user are in flight at once, both past
\* their UPDATE
C5_Witness ==
    \E p, q \in Procs :
        /\ p # q
        /\ procs[p].pc = "ru_insert" /\ procs[q].pc = "ru_insert"
        /\ procs[p].user = Some("u1") /\ procs[q].user = Some("u1")
        /\ procs[p].tokens # 0 /\ procs[q].tokens # 0

\* C6: with at most NProcs tools/call requests in flight, requests_used
\* never exceeds max_requests + (NProcs - 1).
C6_OvershootBound ==
    \A u \in Users :
        IsSome(db[u]) =>
            Get(db[u]).requests_used <= Get(db[u]).max_requests + (NProcs - 1)

\* C7: no step decreases tokens_used or requests_used of any user.
C7_CountersNeverDecrease ==
    [][\A u \in Users :
        IsSome(db[u]) =>
            /\ IsSome(db'[u])
            /\ Get(db'[u]).tokens_used >= Get(db[u]).tokens_used
            /\ Get(db'[u]).requests_used >= Get(db[u]).requests_used]_vars

\* C8: check_quota(t) reports the first that holds of expired, requests
\* exceeded, tokens exceeded (tokens_used + t > max_tokens), and Ok when
\* none holds.
C8_CheckQuotaOrder ==
    quota.out # "none" =>
        LET r == Get(quota.record)
        IN  quota.out =
                IF IsSome(r.expires_at) /\ Get(r.expires_at) < now THEN "Expired"
                ELSE IF r.requests_used >= r.max_requests THEN "RequestsExceeded"
                ELSE IF r.tokens_used + quota.tokens > r.max_tokens THEN "TokensExceeded"
                ELSE "Ok"

\* C9: a tools/call rejected by the gate is answered with the error code of
\* its violation, -32050 to -32053.
C9_ErrorCodeNamesViolation ==
    \A p \in Procs :
        procs[p].err \in GateErrors =>
            /\ IsSome(procs[p].resp)
            /\ IsSome(Get(procs[p].resp).error)
            /\ Get(Get(procs[p].resp).error).code =
                    CASE procs[p].err = "NoSubscription" -> -32050
                      [] procs[p].err = "Expired" -> -32051
                      [] procs[p].err = "RequestsExceeded" -> -32052
                      [] procs[p].err = "TokensExceeded" -> -32053

\* C10: the statement of upsert_subscription sets tier, expiry and the
\* quota bounds of the row and leaves both counters as they were, or at 0
\* when the user had no row, whatever other calls are in flight; every
\* increment of a record_usage that ran before it is still in the row.
C10_UpsertKeepsCounters ==
    [][\A p \in Procs :
        (procs[p].pc = "us_write" /\ procs'[p].pc = "us_invalidate") =>
            LET u == Get(procs[p].user)
                a == Get(procs[p].args)
                preset == TierPreset(a.tier, a.quotas)
            IN  /\ IsSome(db'[u])
                /\ RowToRecord(u, Get(db'[u])).tier = a.tier
                /\ RowToRecord(u, Get(db'[u])).expires_at = a.expires_at
                /\ Get(db'[u]).max_tokens = preset[1]
                /\ Get(db'[u]).max_requests = preset[2]
                /\ Get(db'[u]).max_concurrent = preset[3]
                /\ Get(db'[u]).tokens_used =
                        IF IsSome(db[u]) THEN Get(db[u]).tokens_used ELSE 0
                /\ Get(db'[u]).requests_used =
                        IF IsSome(db[u]) THEN Get(db[u]).requests_used ELSE 0
                /\ Get(db'[u]).tokens_used =
                        usage_counters[u].tokens + PendingTokens(Procs, u)
                /\ Get(db'[u]).requests_used =
                        usage_counters[u].rows + PendingRows(u)]_vars

\* an upsert has rewritten a row with used counters while a record_usage
\* of the same user is between its UPDATE and its usage row
C10_Witness ==
    \E p, q \in Procs :
        /\ procs[p].pc = "us_invalidate" /\ procs[p].user = Some("u1")
        /\ procs[q].pc = "ru_insert" /\ procs[q].user = Some("u1")
        /\ Get(db["u1"]).requests_used > 1

\* C11: a tools/call adds one usage row and one requests_used increment
\* when its upstream call succeeded (and record_usage did not fail), and
\* none when it was rejected, had an invalid name or its upstream failed.
C11_UsageOncePerForwardedCall ==
    \A p \in Handlers :
        (/\ procs[p].pc = "done"
         /\ procs[p].op = "tools/call"
         /\ procs[p].err # "record_usage failed") =>
            LET succeeded == IsSome(procs[p].got) /\ IsSome(Get(procs[p].got))
                n == IF succeeded THEN 1 ELSE 0
            IN  /\ usage_counters["u1"].rows + usage_counters["u2"].rows = n
                /\ Get(db["u1"]).requests_used = n

\* C12: the amount recorded for a successful tools/call is the upstream's
\* result.usage.total_tokens when it is an integer, the estimate otherwise.
C12_RecordsTotalTokens ==
    [][\A p \in Handlers :
        (procs[p].pc = "ru_update" /\ procs'[p].pc = "ru_insert") =>
            LET u == Get(procs[p].user)
                response == Get(Get(procs[p].got))
                estimate == unwrap_or(Get(procs[p].request).params.usage_tokens, 0)
            IN  Get(db'[u]).tokens_used - Get(db[u]).tokens_used =
                    IF IsSome(response.result)
                    THEN unwrap_or(Get(response.result).usage_total_tokens, estimate)
                    ELSE estimate]_vars

\* C13: when record_usage fails after the upstream call of a tools/call
\* succeeded, the client receives the upstream's response.
C13_UsageFailureNotPropagated ==
    \A p \in Handlers :
        (procs[p].pc = "done" /\ procs[p].err = "record_usage failed") =>
            /\ IsSome(Get(procs[p].got))
            /\ procs[p].resp = Get(procs[p].got)

\* record_usage failed at its INSERT, after its UPDATE, for a call with an
\* id of its own
C13_Witness ==
    \E p \in Handlers :
        /\ procs[p].pc = "done" /\ procs[p].err = "record_usage failed"
        /\ procs[p].wrote
        /\ procs[p].id = IdStr("x")
        /\ IsSome(Get(procs[p].resp).result)

\* C14: the id of every response equals the id of the client's request.
C14_ResponseEchoesId ==
    \A p \in Handlers :
        (procs[p].pc = "done" /\ IsSome(procs[p].resp)) =>
            Get(procs[p].resp).id = Get(procs[p].request).id

\* C15: every response carries exactly one of result and error.
C15_ResultXorError ==
    \A p \in Handlers :
        (procs[p].pc = "done" /\ IsSome(procs[p].resp)) =>
            IsSome(Get(procs[p].resp).result) # IsSome(Get(procs[p].resp).error)

\* C16: a request of an unknown method is answered with error -32601
\* naming the method and no result, after no upstream call and no write
\* to the store.
C16_UnknownMethod ==
    \A p \in Handlers :
        (/\ procs[p].pc # "idle"
         /\ Get(procs[p].request).method \notin
                ListMethods \cup {"initialize", "prompts/get", "resources/read",
                                  "tools/call"}) =>
            /\ procs[p].pc = "done"
            /\ IsSome(procs[p].resp)
            /\ Get(procs[p].resp).result = None
            /\ IsSome(Get(procs[p].resp).error)
            /\ Get(Get(procs[p].resp).error).code = -32601
            /\ \E i \in 1..Len(Get(Get(procs[p].resp).error).message) :
                    Get(Get(procs[p].resp).error).message[i] =
                        Get(procs[p].request).method
            /\ ~procs[p].sent
            /\ ~procs[p].wrote
            /\ Get(db["u1"]).requests_used = 0
            /\ usage_counters["u1"].rows = 0
            /\ cache = [u \in Users |-> None]

\* a request of the method resources/subscribe has been answered
C16_Witness ==
    \E p \in Handlers :
        /\ procs[p].pc = "done"
        /\ Get(procs[p].request).method = "resources/subscribe"
        /\ Get(procs[p].request).id = IdInt(7)

\* the items of a result an upstream returned to a list method
Listed(result) ==
    IF result = None \/ Get(result).result = None
    THEN <<>>
    ELSE Get(Get(result).result).items

\* C17: a list method never answers with an error; its result holds every
\* item of every upstream whose call succeeded and no item of a failed one.
C17_ListSkipsFailures ==
    \A p \in Handlers :
        (procs[p].pc = "done" /\ procs[p].op \in ListMethods) =>
            LET response == Get(procs[p].resp)
                results == Get(procs[p].got)
                out == Get(response.result).items
            IN  /\ response.error = None
                /\ IsSome(response.result)
                /\ Len(out) = Len(Listed(results[1][2])) + Len(Listed(results[2][2]))
                /\ {out[i].tag : i \in 1..Len(out)} =
                        UNION {{Listed(results[k][2])[i].tag :
                                    i \in 1..Len(Listed(results[k][2]))} : k \in 1..2}

\* the first upstream of a broadcast failed and the second listed three
\* items, all of them in the answer
C17_Witness ==
    \E p \in Handlers :
        /\ procs[p].pc = "done" /\ procs[p].op = "prompts/list"
        /\ Get(procs[p].got)[1][2] = None
        /\ Len(Listed(Get(procs[p].got)[2][2])) = 3
        /\ Len(Get(Get(procs[p].resp).result).items) = 3

\* C18: in the result of tools/list and prompts/list an item of upstream s
\* with name x appears with name "s/x" when x holds no '/', and with its
\* name unchanged when x holds one.
C18_NamespacedUnlessSlash ==
    \A p \in Handlers :
        (procs[p].pc = "done" /\ procs[p].op \in {"tools/list", "prompts/list"}) =>
            LET results == Get(procs[p].got)
                out == Get(Get(procs[p].resp).result).items
            IN  \A k \in 1..2 :
                    \A i \in 1..Len(Listed(results[k][2])) :
                        LET item == Listed(results[k][2])[i]
                            s == results[k][1]
                        IN  (item.object /\ IsSome(item.name)) =>
                                \E j \in 1..Len(out) :
                                    /\ out[j].tag = item.tag
                                    /\ out[j].name =
                                        IF \E c \in 1..Len(Get(item.name)) :
                                                Get(item.name)[c] = "/"
                                        THEN item.name
                                        ELSE Some(s \o <<"/">> \o Get(item.name))

\* the name of a forwarded request holds a '/'
Namespaced(name) == \E i \in 1..Len(name) : name[i] = "/"

\* C19: a tools/call or prompts/get with name "<server>/<rest>" is sent to
\* the upstream <server>, the text before the first '/', with name <rest>,
\* and it is sent whenever that upstream is registered and the gate admits
\* the call.
C19_FirstSlashDelimits ==
    \A p \in Handlers :
        /\ procs[p].pc \in {"tc_wait", "pg_wait"} =>
            LET name == Get(Get(procs[p].request).params.name)
                c == Get(procs[p].call)
            IN  /\ ~Namespaced(c.server)
                /\ name = c.server \o <<"/">> \o Get(c.request.params.name)
                /\ c.request.method = Get(procs[p].request).method
        /\ (/\ procs[p].pc = "done"
            /\ procs[p].op \in {"tools/call", "prompts/get"}
            /\ procs[p].err \notin GateErrors
            /\ \E s \in Registered, i \in 1..3 :
                LET params == Get(procs[p].request).params
                IN  /\ IsSome(params.name)
                    /\ Len(Get(params.name)) > i
                    /\ SubSeq(Get(params.name), 1, i) = s \o <<"/">>) =>
            procs[p].sent

\* a call named "a/e/f" is on its way to upstream a with name "e/f"
C19_Witness ==
    \E p \in Handlers :
        /\ procs[p].pc = "tc_wait"
        /\ Get(procs[p].call).server = <<"a">>
        /\ Get(procs[p].call).request.params.name = Some(<<"e", "/", "f">>)

\* C20: a tools/call whose name is absent or holds no '/' is answered with
\* error -32602, whatever the caller's subscription, and calls no upstream.
C20_NameCheckedFirst ==
    \A p \in Handlers :
        (/\ procs[p].pc = "done"
         /\ procs[p].op = "tools/call"
         /\ LET name == Get(procs[p].request).params.name
            IN  name = None \/ ~Namespaced(Get(name))) =>
            /\ ~procs[p].sent
            /\ IsSome(procs[p].resp)
            /\ IsSome(Get(procs[p].resp).error)
            /\ Get(Get(procs[p].resp).error).code = -32602

\* C21: for every (server, uri) decode_resource_uri(encode_resource_uri(
\* server, uri)) is exactly (server, uri), and the decoding of a text that
\* lacks the mcp+router:// prefix or has no '/' after it fails.
C21_RoundTrip ==
    /\ IsSome(codec.decoded) =>
            Get(codec.decoded) = Some(<<codec.server, codec.upstream_uri>>)
    /\ IsSome(codec.parsed) =>
            LET rest == strip_prefix(codec.text, RouterScheme)
            IN  (rest = None \/ \A i \in 1..Len(Get(rest)) : Get(rest)[i] # "/")
                    => Get(codec.parsed) = None

\* C22: a resources/read whose uri lacks the mcp+router:// prefix, lacks the
\* '/' separator or carries a payload that is not valid Base64 is answered
\* with error -32010 and calls no upstream.
C22_InvalidUriCode ==
    \A p \in Handlers :
        (/\ procs[p].pc = "done"
         /\ procs[p].op = "resources/read"
         /\ LET uri == unwrap_or(Get(procs[p].request).params.uri, <<>>)
                rest == strip_prefix(uri, RouterScheme)
            IN  \/ rest = None
                \/ \A i \in 1..Len(Get(rest)) : Get(rest)[i] # "/"
                \/ DecodeChars(Get(split_namespace(Get(rest)))[2]) = None) =>
            /\ ~procs[p].sent
            /\ IsSome(procs[p].resp)
            /\ IsSome(Get(procs[p].resp).error)
            /\ Get(Get(procs[p].resp).error).code = -32010

\* C23: within one stdio driver at most one request is in flight: no second
\* request line is written to a child between the write of a request line
\* and the read of its response line.
C23_OneInFlight ==
    \A g \in Children :
        Len(stdio.children[g].stdin) + Len(stdio.children[g].stdout) <= 1

\* C24: a call that finds the child of the driver exited spawns a new child,
\* and if that child answers the call's request line and the line is read
\* the call returns its response: an exited child does not leave the driver
\* unusable.
C24_RespawnAfterExit ==
    \A t \in Callers :
        LET l == stdio.tasks[t]
        IN  (IsSome(l.found) /\ Get(l.found).exited) =>
                /\ l.out # "spawn" =>
                        /\ l.child > Get(l.found).child
                        /\ stdio.children[l.child].spawned
                /\ (/\ l.pc = "done"
                    /\ l.out \notin {"spawn", "cancelled", "read"}
                    /\ l.req \in stdio.children[l.child].served) =>
                        /\ l.out = "Ok"
                        /\ l.resp = l.req

C24_Witness ==
    \E t \in Callers :
        LET l == stdio.tasks[t]
        IN  /\ l.pc = "done"
            /\ IsSome(l.found)
            /\ Get(l.found).exited
            /\ l.out = "Ok"
            /\ l.resp = l.req

\* C25: a call whose read of the response line yields zero bytes returns an
\* error and the driver drops its child state; no later call writes to or
\* reads from that child.
C25_ZeroBytesDiscardsChild ==
    \A t \in Callers :
        LET l == stdio.tasks[t]
        IN  /\ l.out = "closed" =>
                    /\ l.pc = "done"
                    /\ l.child \in stdio.closed
                    /\ stdio.state # Some(l.child)
            /\ l.pc \in {"write", "read"} => l.child \notin stdio.closed

C25_Witness ==
    \E t, u \in Callers :
        /\ stdio.tasks[t].out = "closed"
        /\ stdio.tasks[u].pc = "read"
        /\ stdio.tasks[u].req > stdio.tasks[t].req
        /\ stdio.tasks[u].found = None
        /\ stdio.tasks[u].child # stdio.tasks[t].child

\* C26: after a call was dropped between its write and its read, the next
\* call runs against a newly spawned child, and no call returns the response
\* to another call's request.
C26_CancelledChildReplaced ==
    \A t \in Callers :
        LET l == stdio.tasks[t]
        IN  /\ l.pc \in {"write", "read"} => l.child \notin stdio.abandoned
            /\ l.out = "Ok" => l.resp = l.req

\* C27: whatever ensure_initialized runs are made, one after another or at
\* once, no handle's upstream is sent initialize more than once, and a
\* handle that has its info was sent it exactly once.
C27_InitializeOnce ==
    \A h \in Handles :
        /\ registry.handles[h].sends <= 1
        /\ IsSome(registry.handles[h].info) => registry.handles[h].sends = 1

\* C28: ensure_initialized returns one (name, info) pair for each listed
\* upstream whose initialize succeeded and none for the others, in the order
\* in which the upstreams were registered.
C28_RegistrationOrder ==
    \A t \in RegTasks :
        LET l == registry.tasks[t]
            First(name) == CHOOSE h \in Handles :
                /\ registry.handles[h].name = name
                /\ \A g \in Handles : registry.handles[g].name = name => h <= g
        IN  (l.pc = "done" /\ l.op = "ensure_initialized") =>
                /\ Len(l.infos) = Cardinality(l.ok)
                /\ {l.infos[i][1] : i \in 1..Len(l.infos)}
                        = {registry.handles[h].name : h \in l.ok}
                /\ \A i, j \in 1..Len(l.infos) :
                        i < j => First(l.infos[i][1]) < First(l.infos[j][1])

\* C29: register fails for a stdio registration without command and for an
\* http registration without url, and a failed register leaves the entries
\* as it found them.
C29_RegisterValidates ==
    IsSome(registry.last) =>
        LET last == Get(registry.last)
        IN  /\ (last.registration.kind = "stdio" /\ last.registration.command = None)
                    => last.out = "Err"
            /\ (last.registration.kind = "http" /\ last.registration.url = None)
                    => last.out = "Err"
            /\ last.out = "Err" => registry.entries = last.before

C29_Witness ==
    /\ IsSome(registry.last)
    /\ Get(registry.last).out = "Err"
    /\ Get(registry.last).registration.kind = "stdio"
    /\ Get(registry.last).registration.command = None
    /\ \E e \in registry.entries : e.name = Get(registry.last).registration.name

\* C30: register replaces: the entries never hold two handles for one name,
\* a register of a name already present leaves the set of names as it was,
\* and a call started after a register of its name is served by the handle
\* that register built.
C30_IdempotentReplace ==
    /\ \A e, f \in registry.entries : e.name = f.name => e = f
    /\ IsSome(registry.last) =>
            LET last == Get(registry.last)
            IN  (\E e \in last.before : e.name = last.registration.name) =>
                    {e.name : e \in registry.entries} = {e.name : e \in last.before}
    /\ \A t \in RegTasks :
            LET l == registry.tasks[t]
            IN  l.op = "call" =>
                    /\ l.handle = l.latest
                    /\ l.latest = 0 <=> l.out = "unknown upstream"

C30_Witness ==
    \E t \in RegTasks :
        LET l == registry.tasks[t]
        IN  /\ l.op = "call"
            /\ l.pc = "done"
            /\ l.out = "Ok"
            /\ \E h \in Handles : h < l.handle /\ registry.handles[h].name = l.name

\* C35: a call whose read fails after its request line was written returns
\* an error and the driver discards the child: the next call runs against a
\* newly spawned child.
C35_ReadErrorDiscardsChild ==
    \A t \in Callers :
        LET l == stdio.tasks[t]
        IN  /\ l.out = "read" =>
                    /\ l.pc = "done"
                    /\ stdio.state # Some(l.child)
            /\ l.pc \in {"write", "read"} => l.child \notin stdio.failed

\* C39: every response a call returns is the child's reply to the request
\* line that call wrote, whatever calls ran, failed or were dropped before.
C39_ResponseMatchesRequest ==
    \A t \in Callers :
        (stdio.tasks[t].pc = "done" /\ stdio.tasks[t].out = "Ok") =>
            /\ stdio.tasks[t].resp = stdio.tasks[t].req
            /\ stdio.tasks[t].req \in stdio.children[stdio.tasks[t].child].served

\* C36: the request a tools/call or prompts/get forwards to the upstream
\* carries the client's params with name replaced by the local name and
\* every other field unchanged.
C36_OnlyNameChanges ==
    \A p \in Handlers :
        (/\ procs[p].op \in {"tools/call", "prompts/get"}
         /\ IsSome(procs[p].call)) =>
            LET params == Get(procs[p].request).params
                local == Get(split_namespace(Get(params.name)))[2]
            IN  Get(procs[p].call).request.params
                    = [params EXCEPT !.name = Some(local)]

\* C38: the token estimate a tools/call passes to the subscription gate is
\* never negative, so the gate never compares less than tokens_used with
\* max_tokens.
C38_EstimateNonNegative ==
    \A p \in Procs :
        procs[p].op = "tools/call" =>
            /\ procs[p].est >= 0
            /\ IsSome(procs[p].rec) =>
                    Get(procs[p].rec).tokens_used + procs[p].est
                        >= Get(procs[p].rec).tokens_used

\* C40: for every item with name n that upstream s returns from tools/list,
\* a tools/call with the name the router lists for it is forwarded to
\* upstream s with name exactly n, also when n holds a '/'.
C40_ListedNameRoundTrip ==
    \A p \in Handlers :
        (procs[p].pc = "done" /\ procs[p].op = "tools/list") =>
            LET results == Get(procs[p].got)
                out == Get(Get(procs[p].resp).result).items
            IN  \A k \in 1..2 :
                    \A i \in 1..Len(Listed(results[k][2])) :
                        LET item == Listed(results[k][2])[i]
                        IN  (item.object /\ IsSome(item.name)) =>
                                \E j \in 1..Len(out) :
                                    LET l == Forward([Fresh EXCEPT !.params =
                                            Some(RpcParams(out[j].name, None, None, None))])
                                    IN  /\ out[j].tag = item.tag
                                        /\ IsSome(l.call)
                                        /\ Get(l.call).server = results[k][1]
                                        /\ Get(l.call).request.params.name = item.name

\* C37: record_usage is all-or-nothing: whenever no write of a user's row is
\* under way, the user's usage rows are as many as the requests_used of the
\* row and their tokens sum to its tokens_used, also after a record_usage
\* that failed; and once the counters were updated the user's cache entry is
\* gone.
C37_UsageAllOrNothing ==
    \A u \in Users :
        ~WriteInProgress(u) =>
            /\ usage_counters[u].rows =
                    IF IsSome(db[u]) THEN Get(db[u]).requests_used ELSE 0
            /\ usage_counters[u].tokens =
                    IF IsSome(db[u]) THEN Get(db[u]).tokens_used ELSE 0
            /\ \A p \in Handlers :
                    (/\ procs[p].pc = "done"
                     /\ procs[p].wrote
                     /\ Get(procs[p].request).params.user_id = Some(u)) =>
                        cache[u] = None

\* C33: with a bearer configured, a request whose Authorization header is
\* not exactly "Bearer <secret>" is answered 401 and its handler never runs:
\* no task starts and store and registry stay as they were; with no bearer
\* configured, or with the exact header, the handler runs.
C33_BearerGate ==
    http.endpoint # "none" =>
        LET admitted == \/ http.bearer = None
                        \/ http.authorization = Some(BearerPrefix \o Get(http.bearer))
        IN  IF admitted
            THEN http.dispatched /\ http.status # 401
            ELSE /\ http.status = 401
                 /\ ~http.dispatched
                 /\ procs = [p \in Procs |-> Fresh]
                 /\ db["u2"] = None
                 /\ db["u1"] = SqlUpsertSubscription([v \in Users |-> None], "u1", "Pro",
                                                     None, TierPreset("Pro", None))["u1"]
                 /\ usage_counters = [u \in Users |-> [rows |-> 0, tokens |-> 0]]
                 /\ cache = [u \in Users |-> None]
                 /\ registry = NoRegistry

\* a request carrying a wrong token was rejected
C33_Witness ==
    /\ http.bearer = Some(Secret)
    /\ http.authorization = Some(BearerPrefix \o <<"x">>)
    /\ http.endpoint = "/subscriptions"
    /\ http.status = 401

\* C34: fetch_provider_key returns the plaintext of the latest
\* store_provider_key of that (slug, name), and none for a key never
\* stored; provider_keys holds one row per (provider, name), and no row
\* holds the plaintext it was stored for.
C34_FetchReturnsLastStore ==
    /\ \A r1, r2 \in keys.rows :
          (r1.provider_id = r2.provider_id /\ r1.name = r2.name) => r1 = r2
    /\ \A s \in Slugs, n \in KeyNames :
          LET history == keys.stored[s][n]
              found   == SqlSelectProviderKey(keys.providers, keys.rows, s, n)
          IN  /\ (history = <<>>) <=> (found = {})
              /\ \A row \in found :
                    row.encrypted_value # history[Len(history)]
    /\ (IsSome(keys.last) /\ Get(keys.last).op = "fetch_provider_key") =>
          LET l == Get(keys.last)
              history == keys.stored[l.slug][l.name]
          IN  /\ l.ok
              /\ l.value = IF history = <<>>
                           THEN None
                           ELSE Some(Some(history[Len(history)]))

\* a key stored twice with different values was fetched
C34_Witness ==
    /\ IsSome(keys.last)
    /\ Get(keys.last).op = "fetch_provider_key"
    /\ LET history == keys.stored[Get(keys.last).slug][Get(keys.last).name]
       IN  /\ Len(history) = 2
           /\ history[1] # history[2]
           /\ Get(keys.last).value = Some(Some(history[2]))

C32_StreamingAnswersAtOnce ==
    \A p \in Handlers :
        (/\ procs[p].op = "tools/call"
         /\ IsSome(procs[p].request)
         /\ Get(procs[p].request).params.stream = Some(TRUE)
         /\ procs[p].sent) =>
            /\ procs[p].pc # "tc_wait"
            /\ sse # NoSse

=============================================================================
